---- MODULE Spec2Model ----
(***************************************************************************)
(* State-machine model of the image-management single page application:    *)
(* the Session Store (AuthContext.tsx), the Route Guard and HTTP client    *)
(* wrapper (described by the specification; their files are not part of    *)
(* the source tree), the ImageListing controller (ImageListing.tsx) and    *)
(* the CategoryManagement controller (Categories.tsx), together with the   *)
(* remote service they talk to.                                            *)
(*                                                                         *)
(* The specifications share the variables:                                 *)
(*   Spec           the application from its load: the session life cycle  *)
(*                  and the routing of one browser tab, each page mounted  *)
(*                  by a navigation with the requests of its mount effects, *)
(*   SpecImages     ImageListing (ImageListing.tsx) inside an authenticated *)
(*                  session, with its requests in flight and the remote    *)
(*                  service answering them,                                *)
(*   SpecPages      ImageListing or CategoryManagement (Categories.tsx),   *)
(*                  likewise,                                              *)
(*   SpecUpload     ImageUpload (ImageUpload.tsx), likewise, up to the     *)
(*                  Dashboard it redirects to,                             *)
(*   SpecBusy       the three views with every request answered,           *)
(*   SpecNumbers    the pagination block of ImageListing over listings of  *)
(*                  up to MaxTotalPages pages.                             *)
(***************************************************************************)
EXTENDS Integers, Sequences, FiniteSets, Bags, TLC

VARIABLES
    token,            \* localStorage['jwt_token'] (NoToken when absent)
    isAuthenticated,  \* AuthProvider's state
    authPhase,        \* "constructed" -> "rendered" -> "mounted" (AuthProvider)
    path,             \* the location of the router
    view,             \* what the router renders: "none", "login" or a page
    lg,               \* the state of the login page
    db,               \* the state of Dashboard
    pagePhase,        \* "constructed" -> "mounted" (the page's mount effects)
    il,               \* the state of ImageListing
    cm,               \* the state of CategoryManagement
    up,               \* the state of ImageUpload
    net,              \* the requests in flight, in the order they were issued
    alive,            \* remote service: the ids of the images it stores
    serverCats,       \* remote service: the categories it stores
    lastOp            \* history: the operation that produced this state

vars == << token, isAuthenticated, authPhase, path, view, lg, db, pagePhase,
           il, cm, up, net, alive, serverCats, lastOp >>

sessionVars == << token, isAuthenticated >>
routeVars == << authPhase, path, view, lg >>
serverVars == << alive, serverCats >>
pageVars == << pagePhase, il, cm, up >>

(***************************************************************************)
(* Bounds of the model and constants of the program.                       *)
(***************************************************************************)
\* The number of images the remote service holds at the start.
NumImages == 11
\* The largest number of requests in flight at once.
MaxInFlight == 2
\* The largest totalPages of a pagination handed to getPageNumbers.
MaxTotalPages == 12
\* The largest number of FileReaders of ImageUpload reading at once.
MaxReads == 2
\* The largest number of redirect timers of handleSubmit pending at once,
\* the uploads in flight (each may start one) counted in.
MaxTimers == 2
\* const limit = 10 (the fixed page size of ImageListing).
limit == 10
\* null for an image id (deletingId, imageToDelete) and for nextPage/prevPage.
NoId == 0

NoToken == "null"
Tokens == {"t1", "t2"}

ImageIds == 1..NumImages
\* The images the user tries to delete: the last two of category c1.
DeleteCandidates == {NumImages - 2, NumImages}
\* The category filter values: 'All' and the ids of the categories.
CategoryIds == {"c1", "c2"}
FilterIds == {"All"} \cup CategoryIds
\* The filter buttons the user clicks.
FilterInputs == {"All", "c1"}
\* The category each image belongs to (fixed when it was uploaded).
CatOf(id) == IF id % 2 = 1 THEN "c1" ELSE "c2"
\* The page buttons the user clicks.
PageInputs == 1..2

ProtectedPaths == {"/dashboard", "/upload", "/images", "/categories"}
Paths == {"/login", "/other"} \cup ProtectedPaths
PageOf(p) ==
    CASE p = "/dashboard" -> "dashboard"
      [] p = "/upload" -> "upload"
      [] p = "/images" -> "images"
      [] p = "/categories" -> "categories"
      [] OTHER -> "login"

Op(name, arg) == [name |-> name, arg |-> arg]

(***************************************************************************)
(* Session Store: AuthContext.tsx.                                         *)
(***************************************************************************)
\* useState<boolean>(false): the state AuthProvider is constructed with.
InitialAuthState == FALSE

\* !!token of the mount effect.
TokenPresent(t) == t # NoToken

\* A deviation from login: the token is stored, the flag is left as it is.
loginMissingFlag(t) ==
    /\ token' = t
    /\ isAuthenticated' = isAuthenticated

\* login(token): localStorage.setItem, setIsAuthenticated(true).
login(t) ==
    /\ token' = t
    /\ isAuthenticated' = TRUE

\* A deviation from logout: the token is removed, the flag is left as it is.
logoutKeepsFlag ==
    /\ token' = NoToken
    /\ isAuthenticated' = isAuthenticated

\* logout(): localStorage.removeItem, setIsAuthenticated(false).
logout ==
    /\ token' = NoToken
    /\ isAuthenticated' = FALSE

\* The response interceptor of the HTTP client wrapper on a 401: clears the
\* persisted token and flips isAuthenticated to false (section 4.1).
SessionTeardown ==
    /\ token' = NoToken
    /\ isAuthenticated' = FALSE

(***************************************************************************)
(* Route Guard and routing table (section 4.3 and the App component).      *)
(***************************************************************************)
\* The routes: "/" and "*" redirect to /dashboard.
Resolve(p) == IF p \in ProtectedPaths \cup {"/login"} THEN p ELSE "/dashboard"

\* ProtectedRoute: renders its children when authenticated, redirects to the
\* login entry point otherwise.
GuardedPath(p, auth) ==
    LET q == Resolve(p)
    IN IF q \in ProtectedPaths /\ ~auth THEN "/login" ELSE q

\* What one render of the routes gives for the location p: p itself when its
\* page is rendered, the target of the <Navigate> rendered in its place
\* otherwise ("/" and "*" redirect before any guard is evaluated).
RouteElement(p, auth) == IF Resolve(p) # p THEN Resolve(p) ELSE GuardedPath(p, auth)

(***************************************************************************)
(* Remote service (section 6): the images and categories it stores and the *)
(* responses it computes.                                                  *)
(***************************************************************************)
\* The elements of a set of image ids as an ascending sequence (the ids the
\* service ever stores are 1..NumImages + 1, or 1..MaxTotalPages * limit
\* when it holds a listing of many pages).
SortedSeq(S) ==
    LET In(x) == x \in S
        top == IF S \subseteq 1..(NumImages + 1) THEN NumImages + 1
               ELSE MaxTotalPages * limit
    IN SelectSeq([k \in 1..top |-> k], In)

Range(q) == { q[i] : i \in 1..Len(q) }
Min(a, b) == IF a <= b THEN a ELSE b
RemoveAt(q, i) == SubSeq(q, 1, i - 1) \o SubSeq(q, i + 1, Len(q))

\* The stored images a list request with this category parameter selects.
Matching(stored, category) ==
    { id \in stored : category = "All" \/ CatOf(id) = category }

\* Math.ceil(total / limit).
TotalPages(total) == (total + limit - 1) \div limit

\* The pagination object of a list response (the scenario of section 8).
PaginationOf(total, page) ==
    [ currentPage |-> page,
      totalPages |-> TotalPages(total),
      totalRecords |-> total,
      limit |-> limit,
      hasNextPage |-> page < TotalPages(total),
      hasPrevPage |-> page > 1,
      nextPage |-> IF page < TotalPages(total) THEN page + 1 ELSE NoId,
      prevPage |-> IF page > 1 THEN page - 1 ELSE NoId ]

\* The data array of a list response: one page of the matching images.
PageData(stored, category, page) ==
    LET all == SortedSeq(Matching(stored, category))
    IN SubSeq(all, (page - 1) * limit + 1, Min(page * limit, Len(all)))

\* A service that holds fewer images than the Dashboard shows.
SmallStock == 1..3

\* The categories the service holds at the start.
InitialCats ==
    << [_id |-> "c1", name |-> << "b" >>], [_id |-> "c2", name |-> << "b" >>] >>

(***************************************************************************)
(* Requests and responses. One record shape serves every request:          *)
(*   kind      method and resource                                         *)
(*   cont      the async function awaiting the response                    *)
(*   category, page   the query of a list request (for a DELETE: the       *)
(*             filter and page of the render confirmDelete closed over)    *)
(*   id, cid, name    image id, category id, category name of a mutation   *)
(*   title, file      the form fields of an upload                         *)
(*   params    the query parameters of a list request, if it has any       *)
(*   hasToken  whether the Authorization header carried a token            *)
(*   stage     "sent", then "replied" once the service has answered        *)
(*   status, message, success, shape, data, pagination   the response      *)
(***************************************************************************)
NoMsg == ""

\* null for the selected image of ImageUpload.
NoFile == [name |-> "", size |-> 0]

Request(kind, cont) ==
    [ kind |-> kind, cont |-> cont, category |-> "All", page |-> 0, id |-> NoId,
      cid |-> "", name |-> << >>, title |-> << >>, file |-> NoFile, params |-> << >>,
      hasToken |-> TokenPresent(token),
      stage |-> "sent", status |-> 0, message |-> NoMsg, success |-> FALSE,
      shape |-> "", data |-> << >>, pagination |-> << >> ]

\* err.message of the HTTP client for a failed request.
AxiosMessage(status) ==
    CASE status = 401 -> "Request failed with status code 401"
      [] status = 404 -> "Request failed with status code 404"
      [] status = 409 -> "Request failed with status code 409"
      [] OTHER -> "Request failed with status code 500"

\* The failures the service answers with: 401 carries a message, 500 none.
Failed(m, status) ==
    [m EXCEPT !.stage = "replied", !.status = status,
              !.message = IF status = 500 THEN NoMsg
                          ELSE IF status = 401 THEN "Unauthorized"
                          ELSE IF status = 404 THEN "Not found"
                          ELSE "Conflict"]

\* The response interceptor re-raises every non-2xx response to the caller.
Rejected(m) == m.status # 200

\* err.response?.data?.message || fallback.
MessageOr(m, fallback) == IF m.message # NoMsg THEN m.message ELSE fallback

(***************************************************************************)
(* ImageListing.tsx: the state of the component and its handlers, each as  *)
(* a function from the state s before to the state after.                  *)
(***************************************************************************)
\* The useState initial values.
InitIL ==
    [ images |-> << >>, categories |-> << >>, loading |-> TRUE, error |-> "",
      selectedCategory |-> "All", deletingId |-> NoId, showDeleteModal |-> FALSE,
      imageToDelete |-> NoId, currentPage |-> 1, pagination |-> << >> ]

\* fetchCategories, after the await: both success shapes are accepted, a failure
\* is only logged.
ilFetchCategoriesDone(s, m) ==
    IF ~Rejected(m) /\ m.shape \in {"envelope", "bare"}
    THEN [s EXCEPT !.categories = m.data]
    ELSE s

\* fetchImages, up to the await: setLoading(true), setError('').
fetchImagesBegin(s) == [s EXCEPT !.loading = TRUE, !.error = ""]

\* The list request fetchImages builds from the state of its render.
\* A deviation from fetchImages: params.category is always set.
QueryParamsAlwaysCategory(selectedCategory, currentPage) ==
    [page |-> currentPage, limit |-> limit, category |-> << selectedCategory >>]

\* The query parameters fetchImages builds: page, limit, and category unless
\* the filter is 'All'.
QueryParams(selectedCategory, currentPage) ==
    [ page |-> currentPage, limit |-> limit,
      category |-> IF selectedCategory # "All" THEN << selectedCategory >> ELSE << >> ]

\* The list request of a render whose filter and page are category and page.
ImagesRequest(category, page, cont, id) ==
    [Request("GET /images", cont) EXCEPT !.category = category, !.page = page, !.id = id,
                                         !.params = << QueryParams(category, page) >>]

\* err.response?.data?.message || err.message || 'Failed to fetch images'.
FetchImagesError(m) == MessageOr(m, AxiosMessage(m.status))

\* Four deviations from fetchImages, each changing one of its assignments,
\* which the properties of the listing must tell from the code: the
\* pagination is never stored, the collection is emptied on failure, the
\* response is merged into the collection, a failure sets no error.
fetchImagesKeepsPagination(s, m) ==
    [s EXCEPT !.images = IF ~Rejected(m) /\ m.success THEN m.data ELSE @,
              !.error = IF Rejected(m) THEN FetchImagesError(m)
                        ELSE IF ~m.success THEN "Unexpected response from server"
                        ELSE @,
              !.loading = FALSE]
fetchImagesClearsOnFailure(s, m) ==
    [s EXCEPT !.images = IF ~Rejected(m) /\ m.success THEN m.data ELSE << >>,
              !.pagination = IF ~Rejected(m) /\ m.success /\ m.pagination # << >>
                             THEN m.pagination ELSE @,
              !.error = IF Rejected(m) THEN FetchImagesError(m)
                        ELSE IF ~m.success THEN "Unexpected response from server"
                        ELSE @,
              !.loading = FALSE]
fetchImagesMerges(s, m) ==
    [s EXCEPT !.images = IF ~Rejected(m) /\ m.success
                         THEN LET Fresh(id) == id \notin Range(m.data)
                              IN SelectSeq(@, Fresh) \o m.data
                         ELSE @,
              !.pagination = IF ~Rejected(m) /\ m.success /\ m.pagination # << >>
                             THEN m.pagination ELSE @,
              !.error = IF Rejected(m) THEN FetchImagesError(m)
                        ELSE IF ~m.success THEN "Unexpected response from server"
                        ELSE @,
              !.loading = FALSE]
fetchImagesSilentOnFailure(s, m) ==
    [s EXCEPT !.images = IF ~Rejected(m) /\ m.success THEN m.data ELSE @,
              !.pagination = IF ~Rejected(m) /\ m.success /\ m.pagination # << >>
                             THEN m.pagination ELSE @,
              !.loading = FALSE]

\* fetchImages, after the await: the try body, the catch and the finally.
\* A deviation from fetchImages: a success is dropped when its request is not
\* the one for the current filter and page (a sequence check).
fetchImagesDropsStale(s, m) ==
    [s EXCEPT !.images = IF ~Rejected(m) /\ m.success /\ m.page = s.currentPage
                            /\ m.category = s.selectedCategory
                         THEN m.data ELSE @,
              !.pagination = IF ~Rejected(m) /\ m.success /\ m.pagination # << >>
                                /\ m.page = s.currentPage
                                /\ m.category = s.selectedCategory
                             THEN m.pagination ELSE @,
              !.error = IF Rejected(m) THEN FetchImagesError(m)
                        ELSE IF ~m.success THEN "Unexpected response from server"
                        ELSE @,
              !.loading = FALSE]

fetchImagesDone(s, m) ==
    [s EXCEPT !.images = IF ~Rejected(m) /\ m.success THEN m.data ELSE @,
              !.pagination = IF ~Rejected(m) /\ m.success /\ m.pagination # << >>
                             THEN m.pagination ELSE @,
              !.error = IF Rejected(m) THEN FetchImagesError(m)
                        ELSE IF ~m.success THEN "Unexpected response from server"
                        ELSE @,
              !.loading = FALSE]

\* A deviation from handleCategoryChange: the page is not reset.
handleCategoryChangeKeepsPage(s, categoryId) ==
    [s EXCEPT !.selectedCategory = categoryId]

\* handleCategoryChange: setSelectedCategory(categoryId), setCurrentPage(1).
handleCategoryChange(s, categoryId) ==
    [s EXCEPT !.selectedCategory = categoryId, !.currentPage = 1]

\* A deviation from handlePageChange: the guard without newPage >= 1.
handlePageChangeNoLowerBound(s, newPage) ==
    IF s.pagination # << >> /\ newPage <= s.pagination[1].totalPages
    THEN [s EXCEPT !.currentPage = newPage]
    ELSE s

\* handlePageChange: the guard, then setCurrentPage(newPage).
handlePageChange(s, newPage) ==
    IF newPage >= 1 /\ s.pagination # << >> /\ newPage <= s.pagination[1].totalPages
    THEN [s EXCEPT !.currentPage = newPage]
    ELSE s

\* goToNextPage: pagination?.nextPage && handlePageChange(pagination.nextPage).
goToNextPage(s) ==
    IF s.pagination # << >> /\ s.pagination[1].nextPage # NoId
    THEN handlePageChange(s, s.pagination[1].nextPage)
    ELSE s

\* goToPrevPage: pagination?.prevPage && handlePageChange(pagination.prevPage).
goToPrevPage(s) ==
    IF s.pagination # << >> /\ s.pagination[1].prevPage # NoId
    THEN handlePageChange(s, s.pagination[1].prevPage)
    ELSE s

\* A deviation from the effect that calls fetchImages: it runs after every
\* render.
DepsAlwaysChanged(s, t) == TRUE

\* The dependencies of the effect that calls fetchImages:
\* [selectedCategory, currentPage].
DepsChanged(s, t) ==
    s.selectedCategory # t.selectedCategory \/ s.currentPage # t.currentPage

\* handleDeleteClick: setImageToDelete(image), setShowDeleteModal(true).
handleDeleteClick(s, id) == [s EXCEPT !.imageToDelete = id, !.showDeleteModal = TRUE]

\* A deviation from cancelDelete: the selection is kept.
cancelDeleteKeepsSelection(s) == [s EXCEPT !.showDeleteModal = FALSE]

\* cancelDelete.
cancelDelete(s) == [s EXCEPT !.showDeleteModal = FALSE, !.imageToDelete = NoId]

\* confirmDelete, up to the first await: setDeletingId(imageToDelete._id).
confirmDeleteBegin(s) == [s EXCEPT !.deletingId = s.imageToDelete]

\* The DELETE request of confirmDelete; it keeps the filter and page of the
\* render the handler closed over, which its fetchImages() will use.
DeleteImageRequest(s) ==
    [Request("DELETE /images", "confirmDelete") EXCEPT
        !.id = s.imageToDelete, !.category = s.selectedCategory, !.page = s.currentPage]

\* confirmDelete, the catch and the finally: the dialog is closed and the
\* message is put in the page-level error.
ilDeleteFailed(s, m) ==
    [s EXCEPT !.error = MessageOr(m, "Failed to delete image"),
              !.showDeleteModal = FALSE, !.imageToDelete = NoId, !.deletingId = NoId]

\* confirmDelete after await fetchImages(): the dialog is closed, then finally.
ilDeleteDone(s) ==
    [s EXCEPT !.showDeleteModal = FALSE, !.imageToDelete = NoId, !.deletingId = NoId]

\* What the listing container shows: the grid only when not loading and
\* without an error.
Displayed(s) == IF s.loading \/ s.error # "" THEN << >> ELSE s.images

\* The entries of the list getPageNumbers returns: a page number, or '...'.
PageEntry(i) == [ellipsis |-> FALSE, page |-> i]
Ellipsis == [ellipsis |-> TRUE, page |-> NoId]

\* The pages start..end as entries (none when end < start).
PageRun(start, end) == [k \in 1..(end - start + 1) |-> PageEntry(start + k - 1)]

\* A deviation from getPageNumbers: the leading '...' is pushed from page 3 on.
getPageNumbersEarlyDots(s) ==
    IF s.pagination = << >> THEN << >>
    ELSE LET currentPage == s.pagination[1].currentPage
             totalPages == s.pagination[1].totalPages
             start == IF currentPage - 1 > 2 THEN currentPage - 1 ELSE 2
             end == Min(totalPages - 1, currentPage + 1)
         IN IF totalPages <= 7
            THEN PageRun(1, totalPages)
            ELSE << PageEntry(1) >>
                 \o (IF currentPage > 2 THEN << Ellipsis >> ELSE << >>)
                 \o PageRun(start, end)
                 \o (IF currentPage < totalPages - 2 THEN << Ellipsis >> ELSE << >>)
                 \o << PageEntry(totalPages) >>

\* getPageNumbers: every page when there are at most 7, otherwise the first
\* page, the pages around pagination.currentPage, the last page, and '...'
\* where pages are left out.
getPageNumbers(s) ==
    IF s.pagination = << >> THEN << >>
    ELSE LET currentPage == s.pagination[1].currentPage
             totalPages == s.pagination[1].totalPages
             start == IF currentPage - 1 > 2 THEN currentPage - 1 ELSE 2
             end == Min(totalPages - 1, currentPage + 1)
         IN IF totalPages <= 7
            THEN PageRun(1, totalPages)
            ELSE << PageEntry(1) >>
                 \o (IF currentPage > 3 THEN << Ellipsis >> ELSE << >>)
                 \o PageRun(start, end)
                 \o (IF currentPage < totalPages - 2 THEN << Ellipsis >> ELSE << >>)
                 \o << PageEntry(totalPages) >>

(***************************************************************************)
(* Categories.tsx (CategoryManagement): the state and the handlers.        *)
(***************************************************************************)
\* The characters of a category name, and the names typed into the modal: a
\* blank one, and one that trimming changes.
Alphabet == {" ", "a"}
NameInputs == { << " " >>, << " ", "a" >> }
\* The card whose edit and delete buttons the user clicks: the first one.
CardInputs == {1}

\* String.prototype.trim: leading and trailing white space removed.
RECURSIVE TrimLeft(_)
TrimLeft(q) == IF q # << >> /\ Head(q) = " " THEN TrimLeft(Tail(q)) ELSE q
RECURSIVE TrimRight(_)
TrimRight(q) ==
    IF q # << >> /\ q[Len(q)] = " " THEN TrimRight(SubSeq(q, 1, Len(q) - 1)) ELSE q
Trim(q) == TrimRight(TrimLeft(q))

\* The useState initial values.
InitCM ==
    [ categories |-> << >>, loading |-> TRUE, error |-> "",
      showModal |-> FALSE, modalMode |-> "create", editingCategory |-> << >>,
      categoryName |-> << >>, modalLoading |-> FALSE, modalError |-> "",
      showDeleteModal |-> FALSE, categoryToDelete |-> << >>, deleteLoading |-> FALSE ]

\* fetchCategories, up to the await.
fetchCategoriesBegin(s) == [s EXCEPT !.loading = TRUE, !.error = ""]

\* fetchCategories, after the await.
fetchCategoriesDone(s, m) ==
    [s EXCEPT !.categories = IF ~Rejected(m) /\ m.shape \in {"envelope", "bare"}
                             THEN m.data ELSE @,
              !.error = IF Rejected(m) THEN MessageOr(m, "Failed to fetch categories")
                        ELSE @,
              !.loading = FALSE]

\* A deviation from openCreateModal: the mode of the last modal is kept.
openCreateModalKeepsMode(s) ==
    [s EXCEPT !.categoryName = << >>,
              !.editingCategory = << >>, !.modalError = "", !.showModal = TRUE]

openCreateModal(s) ==
    [s EXCEPT !.modalMode = "create", !.categoryName = << >>,
              !.editingCategory = << >>, !.modalError = "", !.showModal = TRUE]

openEditModal(s, category) ==
    [s EXCEPT !.modalMode = "edit", !.categoryName = category.name,
              !.editingCategory = << category >>, !.modalError = "", !.showModal = TRUE]

closeModal(s) ==
    [s EXCEPT !.showModal = FALSE, !.categoryName = << >>,
              !.editingCategory = << >>, !.modalError = ""]

\* handleSave, the validation: a blank name sets the modal error and returns.
\* A deviation from handleSave: the name is not trimmed before the test.
SaveRejectedOnlyEmpty(s) == s.categoryName = << >>

SaveRejected(s) == Trim(s.categoryName) = << >>
handleSaveInvalid(s) == [s EXCEPT !.modalError = "Category name is required"]

\* handleSave, up to the first await.
handleSaveBegin(s) == [s EXCEPT !.modalLoading = TRUE, !.modalError = ""]

\* The request handleSave issues: POST in create mode, PUT for the category
\* being edited in edit mode.
SaveRequest(s) ==
    IF s.modalMode = "create"
    THEN [Request("POST /categories", "handleSave") EXCEPT !.name = Trim(s.categoryName)]
    ELSE [Request("PUT /categories", "handleSave") EXCEPT
             !.cid = s.editingCategory[1]._id, !.name = Trim(s.categoryName)]

\* A deviation from handleSave: its catch closes the modal.
handleSaveFailedClosesModal(s, m) ==
    [closeModal(s) EXCEPT !.modalLoading = FALSE]

\* A deviation from handleSave: modalLoading is reset at the end of the try
\* block instead of in a finally.
handleSaveFailedStaysBusy(s, m) ==
    [s EXCEPT !.modalError = MessageOr(m, "Failed to save category")]

\* handleSave, the catch and the finally: the modal stays open.
handleSaveFailed(s, m) ==
    [s EXCEPT !.modalError = MessageOr(m, "Failed to save category"),
              !.modalLoading = FALSE]

\* A deviation from handleSave: the modal is left open after the refetch.
handleSaveDoneKeepsModal(s) == [s EXCEPT !.modalLoading = FALSE]

\* handleSave after await fetchCategories(): closeModal(), then finally.
handleSaveDone(s) == [closeModal(s) EXCEPT !.modalLoading = FALSE]

openDeleteModal(s, category) ==
    [s EXCEPT !.categoryToDelete = << category >>, !.showDeleteModal = TRUE]

closeDeleteModal(s) == [s EXCEPT !.showDeleteModal = FALSE, !.categoryToDelete = << >>]

\* confirmDelete, up to the first await.
cmConfirmDeleteBegin(s) == [s EXCEPT !.deleteLoading = TRUE]

DeleteCategoryRequest(s) ==
    [Request("DELETE /categories", "cmConfirmDelete") EXCEPT
        !.cid = s.categoryToDelete[1]._id]

\* confirmDelete, the catch and the finally: page-level error, dialog closed.
cmDeleteFailed(s, m) ==
    [closeDeleteModal(s) EXCEPT !.error = MessageOr(m, "Failed to delete category"),
                                !.deleteLoading = FALSE]

\* confirmDelete after await fetchCategories(): closeDeleteModal(), then finally.
cmDeleteDone(s) == [closeDeleteModal(s) EXCEPT !.deleteLoading = FALSE]

(***************************************************************************)
(* ImageUpload.tsx: the state of the component and its handlers.           *)
(***************************************************************************)
\* The size limit of handleImageChange, in bytes.
MaxFileSize == 10 * 1024 * 1024

\* The files the user picks: one below the limit, one of exactly the limit,
\* one byte above it. NoFile is a file dialog closed without a file.
FileInputs ==
    { [name |-> "A", size |-> MaxFileSize - 1],
      [name |-> "B", size |-> MaxFileSize],
      [name |-> "C", size |-> MaxFileSize + 1] }

\* The titles the user types.
TitleInputs == { << >>, << " " >>, << "a" >> }

\* The options of the category select the user chooses: 'Select Category'
\* and the first category.
OptionInputs == {"", "c1"}

\* '' for the preview.
NoPreview == << >>

\* reader.result of readAsDataURL(file).
DataURL(file) == << "data:", file.name >>

\* The useState initial values, and what stands beside them: fileInput is the
\* file the input element holds, reading is the bag of the files whose
\* FileReader has not finished (one FileReader per call of handleImageChange),
\* redirect counts the pending timers of handleSubmit (one setTimeout per
\* successful upload, none of them cleared).
InitUP ==
    [ title |-> << >>, category |-> "", image |-> NoFile, preview |-> NoPreview,
      loading |-> FALSE, error |-> "", success |-> FALSE,
      categories |-> [defined |-> TRUE, list |-> << >>],
      fileInput |-> NoFile, reading |-> EmptyBag, redirect |-> 0 ]

\* A deviation from handleImageChange: no size check.
handleImageChangeNoLimit(s, file) ==
    IF file = NoFile THEN s
    ELSE [s EXCEPT !.image = file, !.reading = @ (+) SetToBag({file}),
                   !.error = ""]

\* handleImageChange, up to the start of the read.
handleImageChange(s, file) ==
    IF file = NoFile THEN s
    ELSE IF file.size > MaxFileSize
    THEN [s EXCEPT !.error = "File size must be less than 10MB"]
    ELSE [s EXCEPT !.image = file, !.reading = @ (+) SetToBag({file}),
                   !.error = ""]

\* reader.onloadend of the read handleImageChange started for file.
onloadend(s, file) ==
    [s EXCEPT !.preview = DataURL(file), !.reading = @ (-) SetToBag({file})]

\* handleSubmit, up to the await.
handleSubmitBegin(s) ==
    IF s.image = NoFile
    THEN [s EXCEPT !.error = "Please select an image"]
    ELSE [s EXCEPT !.loading = TRUE, !.error = "", !.success = FALSE]

\* The FormData of handleSubmit: title, category, image.
UploadRequest(s) ==
    [Request("POST /images/upload", "handleSubmit") EXCEPT
        !.title = s.title, !.cid = s.category, !.file = s.image]

\* handleSubmit, after the await: the form is reset and a redirect timer
\* started on success, the error is shown on failure; finally.
handleSubmitDone(s, m) ==
    IF Rejected(m)
    THEN [s EXCEPT !.error = MessageOr(m, "Failed to upload image. Please try again."),
                   !.loading = FALSE]
    ELSE [s EXCEPT !.success = TRUE, !.title = << >>, !.category = "",
                   !.image = NoFile, !.preview = NoPreview, !.redirect = @ + 1,
                   !.loading = FALSE]

\* res.data.data of a success response: undefined when the body is a bare
\* array.
ResDataData(m) ==
    IF m.shape = "envelope" THEN [defined |-> TRUE, list |-> m.data]
    ELSE [defined |-> FALSE, list |-> << >>]

\* fetchCategories, after the await: setCategories(res.data.data), or the
\* error of the catch.
upFetchCategoriesDone(s, m) ==
    IF Rejected(m) THEN [s EXCEPT !.error = "Failed to load categories"]
    ELSE [s EXCEPT !.categories = ResDataData(m)]

\* The render of the category options reads categories.length: it throws
\* when categories is undefined, and the application is unmounted.
upRenders(s) == s.categories.defined

(***************************************************************************)
(* Dashboard.tsx.                                                          *)
(***************************************************************************)
\* The number of recent images the Dashboard keeps: imageList.slice(0, 6).
RecentCount == 6

InitDB == [images |-> << >>, loading |-> TRUE, error |-> ""]

\* fetchRecentImages, up to the await.
fetchRecentImagesBegin(s) == [s EXCEPT !.loading = TRUE, !.error = ""]

\* Array.isArray(response.data?.data) ? response.data.data : [].
ImageList(m) == IF m.shape = "noarray" THEN << >> ELSE m.data

\* A deviation from fetchRecentImages: the list is stored whole.
fetchRecentImagesKeepsAll(s, m) ==
    [s EXCEPT !.images = IF Rejected(m) THEN @ ELSE ImageList(m),
              !.error = IF Rejected(m) THEN MessageOr(m, "Failed to fetch images") ELSE @,
              !.loading = FALSE]

\* fetchRecentImages, after the await: imageList.slice(0, 6).
fetchRecentImagesDone(s, m) ==
    [s EXCEPT !.images = IF Rejected(m) THEN @
                         ELSE SubSeq(ImageList(m), 1, Min(RecentCount, Len(ImageList(m)))),
              !.error = IF Rejected(m) THEN MessageOr(m, "Failed to fetch images") ELSE @,
              !.loading = FALSE]

(***************************************************************************)
(* The remote service answers a request, and the response is delivered.    *)
(***************************************************************************)
\* The statuses the service may answer request m with. Without a token, and
\* whenever the token has expired, it answers 401.
Statuses(m) ==
    LET ok == IF m.hasToken THEN {200} ELSE {}
    IN CASE m.kind = "DELETE /images" ->
              IF m.id \in alive THEN ok \cup {401, 500} ELSE {404, 401}
         [] m.kind = "POST /categories" ->
              IF \E k \in 1..Len(serverCats) : serverCats[k]._id = "c3"
              THEN {409, 401} ELSE ok \cup {401, 500}
         [] m.kind \in {"PUT /categories", "DELETE /categories"} ->
              IF \E k \in 1..Len(serverCats) : serverCats[k]._id = m.cid
              THEN ok \cup {401, 500} ELSE {404, 401}
         [] OTHER -> ok \cup {401, 500}

\* The success response to a list of images: a page of them with its
\* pagination (section 6); a request without a page parameter gets page 1.
ImagesReply(m) ==
    LET page == IF m.params = << >> THEN 1 ELSE m.params[1].page
        category == IF m.params = << >> \/ m.params[1].category = << >>
                    THEN "All" ELSE m.params[1].category[1]
    IN [m EXCEPT !.stage = "replied", !.status = 200, !.success = TRUE,
                 !.data = PageData(alive, category, page),
                 !.pagination =
                     << PaginationOf(Cardinality(Matching(alive, category)), page) >>]

\* A success response to the Dashboard's list request whose body has no data
\* array.
MalformedReply(m) ==
    [m EXCEPT !.stage = "replied", !.status = 200, !.shape = "noarray"]

\* The success response to a list of categories, in one of its two shapes.
CategoriesReply(m, shape) ==
    [m EXCEPT !.stage = "replied", !.status = 200, !.shape = shape, !.data = serverCats]

\* The success response to a mutation.
MutationReply(m) == [m EXCEPT !.stage = "replied", !.status = 200]

\* The categories after a mutation request has been carried out.
CatsAfter(m) ==
    CASE m.kind = "POST /categories" ->
              Append(serverCats, [_id |-> "c3", name |-> m.name])
      [] m.kind = "PUT /categories" ->
              [k \in 1..Len(serverCats) |->
                  IF serverCats[k]._id = m.cid
                  THEN [serverCats[k] EXCEPT !.name = m.name] ELSE serverCats[k]]
      [] m.kind = "DELETE /categories" ->
              LET Keep(c) == c._id # m.cid IN SelectSeq(serverCats, Keep)
      [] OTHER -> serverCats

ServerReply(i) ==
    /\ i \in 1..Len(net)
    /\ net[i].stage = "sent"
    /\ \E status \in Statuses(net[i]), shape \in {"envelope", "bare", "noarray"} :
          LET m == net[i]
          IN /\ shape = "bare" => (m.kind = "GET /categories" /\ status = 200)
             /\ shape = "noarray" => (/\ m.kind = "GET /images"
                                      /\ m.cont \in {"fetchRecentImages", "unmounted"}
                                      /\ status = 200)
             /\ net' = [net EXCEPT ![i] =
                           IF status # 200 THEN Failed(m, status)
                           ELSE IF shape = "noarray" THEN MalformedReply(m)
                           ELSE IF m.kind = "GET /images" THEN ImagesReply(m)
                           ELSE IF m.kind = "GET /categories" THEN CategoriesReply(m, shape)
                           ELSE MutationReply(m)]
             /\ alive' = IF status = 200 /\ m.kind = "DELETE /images"
                         THEN alive \ {m.id}
                         ELSE IF status = 200 /\ m.kind = "POST /images/upload"
                         THEN alive \cup {NumImages + 1}
                         ELSE alive
             /\ serverCats' = IF status = 200 THEN CatsAfter(m) ELSE serverCats
    /\ lastOp' = Op("reply", "")
    /\ UNCHANGED << sessionVars, routeVars, db, pageVars >>

\* The response interceptor: a 401 tears the session down, every other
\* response leaves it alone.
ResponseInterceptor(m) ==
    IF m.status = 401 THEN SessionTeardown ELSE UNCHANGED sessionVars

(***************************************************************************)
(* The session and the router: the actions of Spec.                        *)
(***************************************************************************)
\* The login page as it is constructed: no request pending, no error shown.
InitLogin == [loading |-> FALSE, error |-> ""]

Init ==
    /\ token \in {NoToken} \cup Tokens
    /\ isAuthenticated = InitialAuthState
    /\ authPhase = "constructed"
    /\ path \in Paths
    /\ view = "none"
    /\ lg = InitLogin
    /\ db = InitDB
    /\ pagePhase = "constructed"
    /\ il = InitIL
    /\ cm = InitCM
    /\ up = InitUP
    /\ net = << >>
    /\ alive \in {ImageIds, SmallStock}
    /\ serverCats = InitialCats
    /\ lastOp = Op("init", "")

\* The requests of a page that is unmounted stay in flight; nothing awaits
\* them any more but the interceptor.
Orphaned(q) == [k \in 1..Len(q) |-> [q[k] EXCEPT !.cont = "unmounted"]]

\* The requests the mount effects of a view issue, in the order of its
\* effects; the request interceptor reads the token t from storage.
MountRequests(v, t) ==
    LET q == CASE v = "dashboard" -> << Request("GET /images", "fetchRecentImages") >>
               [] v = "images" ->
                      << Request("GET /categories", "ilFetchCategories"),
                         ImagesRequest(InitIL.selectedCategory, InitIL.currentPage,
                                       "fetchImages", NoId) >>
               [] v = "categories" -> << Request("GET /categories", "fetchCategories") >>
               [] v = "upload" -> << Request("GET /categories", "upFetchCategories") >>
               [] OTHER -> << >>
    IN [k \in 1..Len(q) |-> [q[k] EXCEPT !.hasToken = TokenPresent(t)]]

\* The router renders the location p: a <Navigate> is followed ("/" and "*"
\* to /dashboard, a guard that fails to /login), then the page of the
\* location reached is rendered. When that page is not the one shown, or a
\* <Navigate> was rendered in between, the page shown is unmounted and the
\* new one is constructed and mounted: its state is the initial one and its
\* mount effects issue their requests in the same commit. timer is the number
\* of redirect timers of handleSubmit pending after the step.
RouteTo(p, timer) ==
    LET q == GuardedPath(p, isAuthenticated')
    IN /\ path' = q
       /\ view' = PageOf(q)
       /\ IF PageOf(q) # view \/ q # p
          THEN /\ Len(net) + Len(MountRequests(PageOf(q), token')) <= MaxInFlight
               /\ net' = Orphaned(net) \o MountRequests(PageOf(q), token')
               /\ pagePhase' = "mounted"
               /\ lg' = InitLogin
               /\ db' = IF PageOf(q) = "dashboard"
                        THEN fetchRecentImagesBegin(InitDB) ELSE InitDB
               /\ il' = IF PageOf(q) = "images" THEN fetchImagesBegin(InitIL) ELSE InitIL
               /\ cm' = IF PageOf(q) = "categories"
                        THEN fetchCategoriesBegin(InitCM) ELSE InitCM
               /\ up' = [InitUP EXCEPT !.redirect = timer]
          ELSE /\ UNCHANGED << pagePhase, lg, db, il, cm, net >>
               /\ up' = [up EXCEPT !.redirect = timer]

\* The first render of the application: AuthProvider renders its children
\* with the state it was constructed with. The login page is rendered at
\* /login; at every other location a <Navigate> is rendered and no page (the
\* guard of a protected location fails, "/" and "*" redirect); the location
\* is still the one loaded.
FirstRender ==
    /\ authPhase = "constructed"
    /\ authPhase' = "rendered"
    /\ view' = IF RouteElement(path, isAuthenticated) = path THEN PageOf(path) ELSE "none"
    /\ lastOp' = Op("firstRender", path)
    /\ UNCHANGED << sessionVars, path, lg, db, net, serverVars, pageVars >>

\* The effects of the first commit and the render they cause: the effect of
\* the <Navigate> rendered, if any, replaces the location; the mount effect
\* of AuthProvider seeds isAuthenticated from storage; the routes are rendered
\* again for the new location with the new isAuthenticated.
AuthEffect ==
    /\ authPhase = "rendered"
    /\ authPhase' = "mounted"
    /\ token' = token
    /\ isAuthenticated' = TokenPresent(token)
    /\ RouteTo(RouteElement(path, isAuthenticated), up.redirect)
    /\ lastOp' = Op("authEffect", path)
    /\ UNCHANGED serverVars

\* The login form is submitted: POST /auth/login is in flight.
LoginSubmit ==
    /\ authPhase = "mounted"
    /\ view = "login"
    /\ ~lg.loading
    /\ lg' = [loading |-> TRUE, error |-> ""]
    /\ lastOp' = Op("loginSubmit", "")
    /\ UNCHANGED << sessionVars, authPhase, path, view, db, net, serverVars, pageVars >>

\* POST /auth/login succeeded: login(access_token), then the redirect to the
\* dashboard.
LoginSucceeded(t) ==
    /\ view = "login"
    /\ lg.loading
    /\ login(t)
    /\ RouteTo("/dashboard", up.redirect)
    /\ lastOp' = Op("login", t)
    /\ UNCHANGED << authPhase, serverVars >>

\* POST /auth/login was refused with 401 (invalid credentials): login is not
\* called, the interceptor tears the session down, the error is shown.
LoginFailed ==
    /\ view = "login"
    /\ lg.loading
    /\ SessionTeardown
    /\ lg' = [loading |-> FALSE, error |-> "Invalid credentials"]
    /\ lastOp' = Op("loginFailed", "")
    /\ UNCHANGED << authPhase, path, view, db, net, serverVars, pageVars >>

\* logout() called from a protected view; the view stays until the next
\* navigation (section 4.3).
Logout ==
    /\ authPhase = "mounted"
    /\ view \notin {"none", "login"}
    /\ view = "upload" => upRenders(up)
    /\ logout
    /\ lastOp' = Op("logout", "")
    /\ UNCHANGED << routeVars, db, net, serverVars, pageVars >>

\* A navigation to a location, while the application is rendered.
Navigate(p) ==
    /\ authPhase = "mounted"
    /\ ~lg.loading
    /\ view = "upload" => upRenders(up)
    /\ UNCHANGED sessionVars
    /\ RouteTo(p, up.redirect)
    /\ lastOp' = Op("navigate", p)
    /\ UNCHANGED << authPhase, serverVars >>

\* A response reaches the Dashboard's fetchRecentImages, or the async
\* function of a view that has been unmounted meanwhile (the rest of an
\* upload's handleSubmit is DeliverUpload's). The function of an unmounted
\* view still runs to its end: its state updates are dropped, but after a
\* successful mutation confirmDelete of ImageListing calls the fetchImages()
\* it closed over, and handleSave and confirmDelete of CategoryManagement call
\* fetchCategories(); the response to that request changes nothing.
DeliverDashboard(i) ==
    /\ i \in 1..Len(net)
    /\ net[i].stage = "replied"
    /\ net[i].cont \in {"fetchRecentImages", "unmounted"}
    /\ net[i].kind # "POST /images/upload"
    /\ ResponseInterceptor(net[i])
    /\ db' = IF net[i].cont = "fetchRecentImages"
             THEN fetchRecentImagesDone(db, net[i]) ELSE db
    /\ LET m == net[i]
       IN net' = IF m.cont # "unmounted" \/ Rejected(m) THEN RemoveAt(net, i)
                 ELSE IF m.kind = "DELETE /images"
                 THEN Append(RemoveAt(net, i),
                             ImagesRequest(m.category, m.page, "unmounted", m.id))
                 ELSE IF m.kind \in {"POST /categories", "PUT /categories",
                                     "DELETE /categories"}
                 THEN Append(RemoveAt(net, i), Request("GET /categories", "unmounted"))
                 ELSE RemoveAt(net, i)
    /\ lastOp' = Op("response", net[i])
    /\ UNCHANGED << routeVars, serverVars, pageVars >>

(***************************************************************************)
(* Properties of the session and the router, checked under Spec.           *)
(***************************************************************************)
\* C1: in every reachable state of the Session Store, isAuthenticated is
\* true exactly when a token is present in storage under 'jwt_token'.
C1_AuthenticatedIffToken == isAuthenticated <=> TokenPresent(token)

\* C3: when the application is loaded with a token in storage, isAuthenticated
\* is true at the guard's first evaluation, and a protected location renders
\* its view instead of redirecting to the login page.
C3_ReloadKeepsView ==
    /\ (/\ lastOp.name = "firstRender"
        /\ TokenPresent(token)
        /\ lastOp.arg \in ProtectedPaths) => isAuthenticated
    /\ (/\ lastOp.name = "authEffect"
        /\ TokenPresent(token)
        /\ lastOp.arg \in ProtectedPaths) => (path = lastOp.arg /\ view = PageOf(path))

\* C18: login(token), from any state of the session, ends with that token in
\* storage and isAuthenticated true; a login attempt refused for invalid
\* credentials ends with no token stored and isAuthenticated false, and
\* shows an error; no other step puts a token in storage.
C18_LoginStoresToken ==
    [][/\ lastOp'.name = "login" => (token' = lastOp'.arg /\ isAuthenticated')
       /\ lastOp'.name = "loginFailed"
             => (token' = NoToken /\ ~isAuthenticated' /\ lg'.error # "")
       /\ (token' # token /\ token' # NoToken) => lastOp'.name = "login"]_vars

\* login("t2") has been called from the login page and the Dashboard is shown.
C18_Witness ==
    /\ lastOp.name = "login"
    /\ lastOp.arg = "t2"
    /\ token = "t2"
    /\ isAuthenticated
    /\ view = "dashboard"

\* C19: logout() ends with no token in storage and isAuthenticated false;
\* once the session store is mounted, isAuthenticated becomes true again by
\* login only; and while it is false every navigation to a location other
\* than /login (a protected path, or an unknown one, which resolves to
\* /dashboard) ends at /login with the login page rendered and no request
\* of a protected view issued.
C19_LogoutLocksProtectedViews ==
    [][/\ lastOp'.name = "logout" => (token' = NoToken /\ ~isAuthenticated')
       /\ (authPhase = "mounted" /\ ~isAuthenticated /\ isAuthenticated')
             => lastOp'.name = "login"
       /\ (/\ lastOp'.name = "navigate"
           /\ ~isAuthenticated
           /\ Resolve(lastOp'.arg) \in ProtectedPaths)
             => /\ path' = "/login"
                /\ view' = "login"
                /\ Len(net') = Len(net)
                /\ db' \in {db, InitDB}]_vars

\* After a session in which the Dashboard was shown and its request sent,
\* the session is over and a navigation to an unknown path has ended at the
\* login page.
C19_Witness ==
    /\ lastOp.name = "navigate"
    /\ lastOp.arg = "/other"
    /\ path = "/login"
    /\ view = "login"
    /\ token = NoToken
    /\ ~isAuthenticated
    /\ \E i \in 1..Len(net) : net[i].hasToken /\ net[i].cont = "unmounted"

\* C20: the Dashboard never holds more than 6 images; after a successful
\* list response of n images it holds the first min(6, n) of them in the
\* order of the response, and none when the response has no data array.
C20_DashboardAtMostSix ==
    /\ Len(db.images) <= 6
    /\ (/\ lastOp.name = "response"
        /\ lastOp.arg.cont = "fetchRecentImages"
        /\ lastOp.arg.status = 200)
          => IF lastOp.arg.shape = "noarray" THEN db.images = << >>
             ELSE /\ Len(db.images) = Min(6, Len(lastOp.arg.data))
                  /\ \A k \in 1..Len(db.images) : db.images[k] = lastOp.arg.data[k]

\* A response of ten images has been received: the Dashboard holds six.
C20_Witness ==
    /\ lastOp.name = "response"
    /\ lastOp.arg.cont = "fetchRecentImages"
    /\ lastOp.arg.status = 200
    /\ Len(lastOp.arg.data) = limit
    /\ db.images = << 1, 2, 3, 4, 5, 6 >>

(***************************************************************************)
(* A protected view inside an authenticated session: the actions of        *)
(* SpecImages and SpecPages. Their initial states are the states in        *)
(* which the user has logged in and the page of /images or /categories has *)
(* been constructed, its effects not yet run.                              *)
(***************************************************************************)
InitPages ==
    /\ token = "t1"
    /\ isAuthenticated = TRUE
    /\ authPhase = "mounted"
    /\ path \in {"/images", "/categories"}
    /\ view = PageOf(path)
    /\ lg = InitLogin
    /\ db = InitDB
    /\ pagePhase = "constructed"
    /\ il = InitIL
    /\ cm = InitCM
    /\ up = InitUP
    /\ net = << >>
    /\ alive = ImageIds
    \* CategoryManagement starts with a service that holds one category.
    /\ serverCats = IF view = "images" THEN InitialCats ELSE SubSeq(InitialCats, 1, 1)
    /\ lastOp = Op("navigate", path)

\* What every action of a page leaves alone.
PageFrame == UNCHANGED << routeVars, db, up, serverVars >>

\* ---- ImageListing -------------------------------------------------------

\* The effect that follows a render of ImageListing in which selectedCategory
\* or currentPage changed: fetchImages() with the state of that render.
ilRender(s) ==
    IF DepsChanged(il, s)
    THEN /\ Len(net) < MaxInFlight
         /\ il' = fetchImagesBegin(s)
         /\ net' = Append(net, ImagesRequest(s.selectedCategory, s.currentPage,
                                             "fetchImages", NoId))
    ELSE /\ il' = s
         /\ net' = net

\* The two mount effects: fetchCategories(), then fetchImages().
MountImages ==
    /\ view = "images"
    /\ pagePhase = "constructed"
    /\ pagePhase' = "mounted"
    /\ il' = fetchImagesBegin(il)
    /\ net' = << Request("GET /categories", "ilFetchCategories"),
                 ImagesRequest(il.selectedCategory, il.currentPage, "fetchImages", NoId) >>
    /\ lastOp' = Op("mount", "images")
    /\ UNCHANGED << sessionVars, cm >>
    /\ PageFrame

\* The page is on screen and its effects have run. The delete dialog is a
\* sibling of the page (fixed inset-0): while it is rendered the controls of
\* the page stay rendered and enabled.
ilReady == view = "images" /\ pagePhase = "mounted"

\* The delete dialog is rendered: showDeleteModal && imageToDelete.
ilOverlay == il.showDeleteModal /\ il.imageToDelete # NoId

\* The pagination block is rendered: the grid is (not loading, no error, some
\* image) and pagination && pagination.totalPages > 1.
ilPaged ==
    /\ ilReady
    /\ Displayed(il) # << >>
    /\ il.pagination # << >>
    /\ il.pagination[1].totalPages > 1

\* A filter button is clicked: 'All', or one of the categories fetched.
HandleCategoryChange(c) ==
    /\ ilReady
    /\ c = "All" \/ \E k \in 1..Len(il.categories) : il.categories[k]._id = c
    /\ ilRender(handleCategoryChange(il, c))
    /\ lastOp' = Op("handleCategoryChange", c)
    /\ UNCHANGED << sessionVars, pagePhase, cm >>
    /\ PageFrame

\* A page button is clicked: a number of getPageNumbers() other than the
\* current page (disabled={page === '...' || page === currentPage}).
HandlePageChange(n) ==
    /\ ilPaged
    /\ PageEntry(n) \in Range(getPageNumbers(il))
    /\ n # il.currentPage
    /\ ilRender(handlePageChange(il, n))
    /\ lastOp' = Op("handlePageChange", n)
    /\ UNCHANGED << sessionVars, pagePhase, cm >>
    /\ PageFrame

\* The Next button (disabled={!pagination.hasNextPage}): goToNextPage().
GoToNextPage ==
    /\ ilPaged
    /\ il.pagination[1].hasNextPage
    /\ ilRender(goToNextPage(il))
    /\ lastOp' = Op("goToNextPage", "")
    /\ UNCHANGED << sessionVars, pagePhase, cm >>
    /\ PageFrame

\* The Previous button (disabled={!pagination.hasPrevPage}): goToPrevPage().
GoToPrevPage ==
    /\ ilPaged
    /\ il.pagination[1].hasPrevPage
    /\ ilRender(goToPrevPage(il))
    /\ lastOp' = Op("goToPrevPage", "")
    /\ UNCHANGED << sessionVars, pagePhase, cm >>
    /\ PageFrame

\* The Retry button of the error panel: setError(''), fetchImages().
RetryImages ==
    /\ ilReady
    /\ ~il.loading /\ il.error # ""
    /\ Len(net) < MaxInFlight
    /\ il' = fetchImagesBegin([il EXCEPT !.error = ""])
    /\ net' = Append(net, ImagesRequest(il.selectedCategory, il.currentPage,
                                        "fetchImages", NoId))
    /\ lastOp' = Op("retry", "images")
    /\ UNCHANGED << sessionVars, pagePhase, cm >>
    /\ PageFrame

\* The delete button of a displayed image (disabled while it is deleted).
HandleDeleteClick(id) ==
    /\ ilReady
    /\ id \in Range(Displayed(il))
    /\ il.deletingId # id
    /\ il' = handleDeleteClick(il, id)
    /\ lastOp' = Op("handleDeleteClick", id)
    /\ UNCHANGED << sessionVars, pagePhase, cm, net >>
    /\ PageFrame

\* The dialog is rendered when showDeleteModal && imageToDelete; its buttons
\* are disabled while deletingId !== null.
ilDialogEnabled == ilReady /\ ilOverlay /\ il.deletingId = NoId

CancelDelete ==
    /\ ilDialogEnabled
    /\ il' = cancelDelete(il)
    /\ lastOp' = Op("cancelDelete", "")
    /\ UNCHANGED << sessionVars, pagePhase, cm, net >>
    /\ PageFrame

ConfirmDelete ==
    /\ ilDialogEnabled
    /\ Len(net) < MaxInFlight
    /\ il' = confirmDeleteBegin(il)
    /\ net' = Append(net, DeleteImageRequest(il))
    /\ lastOp' = Op("confirmDelete", il.imageToDelete)
    /\ UNCHANGED << sessionVars, pagePhase, cm >>
    /\ PageFrame

\* A response reaches the async function of ImageListing that awaits it.
\* After a successful DELETE, confirmDelete calls fetchImages() of the render
\* it closed over and awaits it.
DeliverImages(i) ==
    /\ view = "images"
    /\ i \in 1..Len(net)
    /\ net[i].stage = "replied"
    /\ net[i].cont \in {"ilFetchCategories", "fetchImages", "confirmDelete"}
    /\ ResponseInterceptor(net[i])
    /\ LET m == net[i]
       IN IF m.cont = "ilFetchCategories"
          THEN /\ il' = ilFetchCategoriesDone(il, m)
               /\ net' = RemoveAt(net, i)
          ELSE IF m.cont = "fetchImages"
          THEN /\ il' = fetchImagesDone(il, m)
               /\ net' = RemoveAt(net, i)
          ELSE IF m.kind = "DELETE /images"
          THEN IF Rejected(m)
               THEN /\ il' = ilDeleteFailed(il, m)
                    /\ net' = RemoveAt(net, i)
               ELSE /\ il' = fetchImagesBegin(il)
                    /\ net' = Append(RemoveAt(net, i),
                                     ImagesRequest(m.category, m.page,
                                                   "confirmDelete", m.id))
          ELSE /\ il' = ilDeleteDone(fetchImagesDone(il, m))
               /\ net' = RemoveAt(net, i)
    /\ lastOp' = Op("response", net[i])
    /\ UNCHANGED << pagePhase, cm >>
    /\ PageFrame

\* ---- CategoryManagement ------------------------------------------------

\* A call of fetchCategories(): the state s with the request in flight.
cmFetch(s, cont) ==
    /\ cm' = fetchCategoriesBegin(s)
    /\ net' = Append(net, Request("GET /categories", cont))

\* The mount effect: fetchCategories().
MountCategories ==
    /\ view = "categories"
    /\ pagePhase = "constructed"
    /\ pagePhase' = "mounted"
    /\ cmFetch(cm, "fetchCategories")
    /\ lastOp' = Op("mount", "categories")
    /\ UNCHANGED << sessionVars, il >>
    /\ PageFrame

\* The page is on screen and its effect has run. The create/edit modal and
\* the delete dialog are siblings of the page (fixed inset-0): while one is
\* rendered the controls of the page stay rendered and enabled.
cmReady == view = "categories" /\ pagePhase = "mounted"

\* The list of categories is rendered when not loading and without an error.
cmListed == IF cm.loading \/ cm.error # "" THEN << >> ELSE cm.categories

\* The Retry button of the error panel: setError(''), fetchCategories().
RetryCategories ==
    /\ cmReady
    /\ ~cm.loading /\ cm.error # ""
    /\ Len(net) < MaxInFlight
    /\ cmFetch([cm EXCEPT !.error = ""], "fetchCategories")
    /\ lastOp' = Op("retry", "categories")
    /\ UNCHANGED << sessionVars, pagePhase, il >>
    /\ PageFrame

\* A handler of CategoryManagement that issues no request.
cmLocal(s, op) ==
    /\ cmReady
    /\ cm' = s
    /\ lastOp' = op
    /\ UNCHANGED << sessionVars, pagePhase, il, net >>
    /\ PageFrame

OpenCreateModal ==
    /\ cmReady
    /\ cmLocal(openCreateModal(cm), Op("openCreateModal", ""))

OpenEditModal(k) ==
    /\ cmReady
    /\ k \in 1..Len(cmListed)
    /\ cmLocal(openEditModal(cm, cmListed[k]), Op("openEditModal", cmListed[k]._id))

\* The modal's close buttons and its input are disabled while modalLoading.
cmModalEnabled == cm.showModal /\ ~cm.modalLoading

CloseModal ==
    /\ cmModalEnabled
    /\ cmLocal(closeModal(cm), Op("closeModal", ""))

\* The input's onChange: setCategoryName(e.target.value).
SetCategoryName(v) ==
    /\ cmModalEnabled
    /\ cmLocal([cm EXCEPT !.categoryName = v], Op("setCategoryName", v))

\* handleSave, from the Save button or the Enter key of the input.
HandleSave ==
    /\ cmReady
    /\ cmModalEnabled
    /\ IF SaveRejected(cm)
       THEN /\ cm' = handleSaveInvalid(cm)
            /\ net' = net
       ELSE /\ Len(net) < MaxInFlight
            /\ IF cm.modalMode = "create" \/ cm.editingCategory # << >>
               THEN /\ cm' = handleSaveBegin(cm)
                    /\ net' = Append(net, SaveRequest(cm))
               ELSE cmFetch(handleSaveBegin(cm), "handleSave")
    /\ lastOp' = Op("handleSave", cm.categoryName)
    /\ UNCHANGED << sessionVars, pagePhase, il >>
    /\ PageFrame

OpenDeleteModal(k) ==
    /\ cmReady
    /\ k \in 1..Len(cmListed)
    /\ cmLocal(openDeleteModal(cm, cmListed[k]), Op("openDeleteModal", cmListed[k]._id))

\* The dialog is rendered when showDeleteModal && categoryToDelete; its
\* buttons are disabled while deleteLoading.
cmDialogEnabled ==
    cm.showDeleteModal /\ cm.categoryToDelete # << >> /\ ~cm.deleteLoading

CloseDeleteModal ==
    /\ cmDialogEnabled
    /\ cmLocal(closeDeleteModal(cm), Op("closeDeleteModal", ""))

cmConfirmDelete ==
    /\ cmReady
    /\ cmDialogEnabled
    /\ Len(net) < MaxInFlight
    /\ cm' = cmConfirmDeleteBegin(cm)
    /\ net' = Append(net, DeleteCategoryRequest(cm))
    /\ lastOp' = Op("confirmDelete", cm.categoryToDelete[1]._id)
    /\ UNCHANGED << sessionVars, pagePhase, il >>
    /\ PageFrame

\* A response reaches the async function of CategoryManagement that awaits
\* it. After a successful mutation, handleSave and confirmDelete call
\* fetchCategories() and await it.
DeliverCategories(i) ==
    /\ view = "categories"
    /\ i \in 1..Len(net)
    /\ net[i].stage = "replied"
    /\ net[i].cont \in {"fetchCategories", "handleSave", "cmConfirmDelete"}
    /\ ResponseInterceptor(net[i])
    /\ LET m == net[i]
       IN IF m.cont = "fetchCategories"
          THEN /\ cm' = fetchCategoriesDone(cm, m)
               /\ net' = RemoveAt(net, i)
          ELSE IF m.kind = "GET /categories"
          THEN /\ cm' = IF m.cont = "handleSave"
                        THEN handleSaveDone(fetchCategoriesDone(cm, m))
                        ELSE cmDeleteDone(fetchCategoriesDone(cm, m))
               /\ net' = RemoveAt(net, i)
          ELSE IF Rejected(m)
          THEN /\ cm' = IF m.cont = "handleSave"
                        THEN handleSaveFailed(cm, m) ELSE cmDeleteFailed(cm, m)
               /\ net' = RemoveAt(net, i)
          ELSE /\ cm' = fetchCategoriesBegin(cm)
               /\ net' = Append(RemoveAt(net, i), Request("GET /categories", m.cont))
    /\ lastOp' = Op("response", net[i])
    /\ UNCHANGED << pagePhase, il >>
    /\ PageFrame

\* ImageListing alone: SpecImages.
InitImages == InitPages /\ path = "/images"

NextImages ==
    \/ MountImages
    \/ \E c \in FilterInputs : HandleCategoryChange(c)
    \/ \E n \in PageInputs : HandlePageChange(n)
    \/ GoToNextPage
    \/ GoToPrevPage
    \/ RetryImages
    \/ \E id \in DeleteCandidates : HandleDeleteClick(id)
    \/ CancelDelete
    \/ ConfirmDelete
    \/ \E i \in 1..MaxInFlight : DeliverImages(i)
    \/ \E i \in 1..MaxInFlight : ServerReply(i)

SpecImages == InitImages /\ [][NextImages]_vars

\* Either view: SpecPages.
NextCategories ==
    \/ MountCategories
    \/ RetryCategories
    \/ OpenCreateModal
    \/ \E k \in CardInputs : OpenEditModal(k)
    \/ CloseModal
    \/ \E v \in NameInputs : SetCategoryName(v)
    \/ HandleSave
    \/ \E k \in CardInputs : OpenDeleteModal(k)
    \/ CloseDeleteModal
    \/ cmConfirmDelete
    \/ \E i \in 1..MaxInFlight : DeliverCategories(i)
    \/ \E i \in 1..MaxInFlight : ServerReply(i)

NextPages == NextImages \/ NextCategories

SpecPages == InitPages /\ [][NextPages]_vars

(***************************************************************************)
(* The ImageUpload view inside an authenticated session: the actions of    *)
(* SpecUpload. Its initial state is the state of Spec in which the user    *)
(* has logged in and navigated to /upload, the page being constructed and  *)
(* its effect not yet run.                                                 *)
(***************************************************************************)
InitUpload ==
    /\ token = "t1"
    /\ isAuthenticated = TRUE
    /\ authPhase = "mounted"
    /\ path = "/upload"
    /\ view = PageOf(path)
    /\ lg = InitLogin
    /\ db = InitDB
    /\ pagePhase = "constructed"
    /\ il = InitIL
    /\ cm = InitCM
    /\ up = InitUP
    /\ net = << >>
    /\ alive = ImageIds
    /\ serverCats = InitialCats
    /\ lastOp = Op("navigate", path)

\* What every handler of ImageUpload leaves alone.
UploadFrame == UNCHANGED << sessionVars, routeVars, db, il, cm, serverVars >>

\* The mount effect: fetchCategories().
MountUpload ==
    /\ view = "upload"
    /\ pagePhase = "constructed"
    /\ Len(net) < MaxInFlight
    /\ pagePhase' = "mounted"
    /\ net' = Append(net, Request("GET /categories", "upFetchCategories"))
    /\ lastOp' = Op("mount", view)
    /\ UNCHANGED up
    /\ UploadFrame

\* The form is on screen and its effect has run.
upPage == view = "upload" /\ pagePhase = "mounted" /\ upRenders(up)

\* The title input changes.
SetTitle(v) ==
    /\ upPage
    /\ up' = [up EXCEPT !.title = v]
    /\ lastOp' = Op("setTitle", v)
    /\ UNCHANGED << pagePhase, net >>
    /\ UploadFrame

\* An option of the category select is chosen: '' or one of the categories.
SetCategory(c) ==
    /\ upPage
    /\ c = "" \/ \E k \in 1..Len(up.categories.list) : up.categories.list[k]._id = c
    /\ up' = [up EXCEPT !.category = c]
    /\ lastOp' = Op("setCategory", c)
    /\ UNCHANGED << pagePhase, net >>
    /\ UploadFrame

\* The file input changes: it holds the file picked (none when the dialog was
\* closed without one), and handleImageChange runs.
HandleImageChange(file) ==
    /\ upPage
    /\ handleImageChange(up, file).reading # up.reading
          => BagCardinality(up.reading) < MaxReads
    /\ up' = [handleImageChange(up, file) EXCEPT !.fileInput = file]
    /\ lastOp' = Op("handleImageChange", file)
    /\ UNCHANGED << pagePhase, net >>
    /\ UploadFrame

\* A FileReader finishes.
ReaderLoadEnd(file) ==
    /\ upPage
    /\ BagIn(file, up.reading)
    /\ up' = onloadend(up, file)
    /\ lastOp' = Op("onloadend", file)
    /\ UNCHANGED << pagePhase, net >>
    /\ UploadFrame

\* The form is submitted: the submit button is enabled (disabled={loading ||
\* !image}), the required title is not empty and the required file input
\* holds a file.
HandleSubmit ==
    /\ upPage
    /\ ~up.loading
    /\ up.image # NoFile
    /\ up.title # << >>
    /\ up.fileInput # NoFile
    /\ Len(net) < MaxInFlight
    /\ up.redirect + Cardinality({ k \in 1..Len(net) :
                                      net[k].kind = "POST /images/upload" }) < MaxTimers
    /\ up' = handleSubmitBegin(up)
    /\ net' = Append(net, UploadRequest(up))
    /\ lastOp' = Op("handleSubmit", up.image)
    /\ UNCHANGED pagePhase
    /\ UploadFrame

\* The Cancel button: navigate('/dashboard').
CancelUpload ==
    /\ upPage
    /\ UNCHANGED sessionVars
    /\ RouteTo("/dashboard", up.redirect)
    /\ lastOp' = Op("cancel", "")
    /\ UNCHANGED << authPhase, serverVars >>

\* A timer handleSubmit started after a successful upload fires:
\* navigate('/dashboard'), whatever view is shown by then. When the render of
\* ImageUpload has thrown, the location changes and nothing is rendered.
RedirectTimer ==
    /\ up.redirect > 0
    /\ UNCHANGED sessionVars
    /\ IF view = "upload" /\ pagePhase = "mounted" /\ ~upRenders(up)
       THEN /\ path' = "/dashboard"
            /\ up' = [up EXCEPT !.redirect = @ - 1]
            /\ UNCHANGED << view, lg, db, pagePhase, il, cm, net >>
       ELSE RouteTo("/dashboard", up.redirect - 1)
    /\ lastOp' = Op("redirect", "")
    /\ UNCHANGED << authPhase, serverVars >>

\* A response reaches the async function of ImageUpload that awaits it. When
\* the view has been unmounted meanwhile, the state updates of handleSubmit
\* are dropped but its timer is still started.
DeliverUpload(i) ==
    /\ i \in 1..Len(net)
    /\ net[i].stage = "replied"
    /\ \/ net[i].cont \in {"upFetchCategories", "handleSubmit"}
       \/ net[i].kind = "POST /images/upload"
    /\ ResponseInterceptor(net[i])
    /\ LET m == net[i]
       IN up' = IF m.cont = "upFetchCategories" THEN upFetchCategoriesDone(up, m)
                ELSE IF m.cont = "handleSubmit" THEN handleSubmitDone(up, m)
                ELSE IF Rejected(m) THEN up
                ELSE [up EXCEPT !.redirect = @ + 1]
    /\ net' = RemoveAt(net, i)
    /\ lastOp' = Op("response", net[i])
    /\ UNCHANGED << routeVars, db, pagePhase, il, cm, serverVars >>

NextUpload ==
    \/ MountUpload
    \/ \E v \in TitleInputs : SetTitle(v)
    \/ \E c \in OptionInputs : SetCategory(c)
    \/ \E file \in FileInputs \cup {NoFile} : HandleImageChange(file)
    \/ \E file \in FileInputs : ReaderLoadEnd(file)
    \/ HandleSubmit
    \/ CancelUpload
    \/ RedirectTimer
    \/ \E i \in 1..MaxInFlight : DeliverUpload(i)
    \/ \E i \in 1..MaxInFlight : DeliverDashboard(i)
    \/ \E i \in 1..MaxInFlight : ServerReply(i)

SpecUpload == InitUpload /\ [][NextUpload]_vars

(***************************************************************************)
(* The application from its load: Spec. The session and the router, with   *)
(* the pages mounted by the navigations and the responses to the requests  *)
(* of their mount effects; the user takes no other step inside a page.     *)
(***************************************************************************)
Next ==
    \/ FirstRender
    \/ AuthEffect
    \/ LoginSubmit
    \/ \E t \in Tokens : LoginSucceeded(t)
    \/ LoginFailed
    \/ Logout
    \/ \E p \in Paths : Navigate(p)
    \/ \E i \in 1..MaxInFlight : ServerReply(i)
    \/ \E i \in 1..MaxInFlight : DeliverDashboard(i)
    \/ \E i \in 1..MaxInFlight : DeliverImages(i)
    \/ \E i \in 1..MaxInFlight : DeliverCategories(i)
    \/ \E i \in 1..MaxInFlight : DeliverUpload(i)

Spec == Init /\ [][Next]_vars

(***************************************************************************)
(* The protected views with every request answered: SpecBusy. Its initial  *)
(* states are those of the three views; its actions are the steps of the   *)
(* views that issue a request, with the steps that lead to them (one value *)
(* for each input), and the responses; every request in flight is          *)
(* eventually answered and its response eventually reaches the code that   *)
(* awaits it.                                                              *)
(***************************************************************************)
InitBusy == InitPages \/ InitUpload

\* The file selected in SpecBusy.
BusyFile == [name |-> "A", size |-> MaxFileSize - 1]

NextBusy ==
    \/ MountImages
    \/ HandleCategoryChange("c1")
    \/ HandlePageChange(2)
    \/ GoToNextPage
    \/ GoToPrevPage
    \/ RetryImages
    \/ HandleDeleteClick(NumImages)
    \/ ConfirmDelete
    \/ \E i \in 1..MaxInFlight : DeliverImages(i)
    \/ MountCategories
    \/ RetryCategories
    \/ OpenCreateModal
    \/ SetCategoryName(<< "a" >>)
    \/ HandleSave
    \/ \E k \in CardInputs : OpenDeleteModal(k)
    \/ cmConfirmDelete
    \/ \E i \in 1..MaxInFlight : DeliverCategories(i)
    \/ MountUpload
    \/ SetTitle(<< "a" >>)
    \/ HandleImageChange(BusyFile)
    \/ ReaderLoadEnd(BusyFile)
    \/ HandleSubmit
    \/ CancelUpload
    \/ RedirectTimer
    \/ \E i \in 1..MaxInFlight : DeliverUpload(i)
    \/ \E i \in 1..MaxInFlight : DeliverDashboard(i)
    \/ \E i \in 1..MaxInFlight : ServerReply(i)

\* Every issued request eventually receives a response, and the continuation
\* of the await runs once it has: a request stays in flight at its place, or
\* moves towards the head, until it is answered and delivered.
Responses ==
    \A i \in 1..MaxInFlight :
        /\ WF_vars(ServerReply(i))
        /\ WF_vars(DeliverImages(i))
        /\ WF_vars(DeliverCategories(i))
        /\ WF_vars(DeliverUpload(i))
        /\ WF_vars(DeliverDashboard(i))

SpecBusy == InitBusy /\ [][NextBusy]_vars /\ Responses

(***************************************************************************)
(* The pagination block of ImageListing: SpecNumbers. The service holds     *)
(* the images of a listing of up to MaxTotalPages pages. ImageListing is    *)
(* either constructed and not yet mounted, or showing one of the pages      *)
(* after the responses to its requests; the user clicks the page buttons,  *)
(* Previous and Next, and the service answers.                             *)
(***************************************************************************)
\* The pages a listing has, and the page shown.
PaginationInputs ==
    { x \in [totalPages : 1..MaxTotalPages, currentPage : 1..MaxTotalPages] :
          x.currentPage <= x.totalPages }

\* ImageListing showing page c of the images the service holds: the state
\* after fetchCategories and the fetchImages of page c have been answered.
LoadedIL(c) ==
    fetchImagesDone([fetchImagesBegin(InitIL) EXCEPT !.currentPage = c,
                                                     !.categories = serverCats],
                    ImagesReply(ImagesRequest("All", c, "fetchImages", NoId)))

InitNumbers ==
    /\ token = "t1"
    /\ isAuthenticated = TRUE
    /\ authPhase = "mounted"
    /\ path = "/images"
    /\ view = PageOf(path)
    /\ lg = InitLogin
    /\ db = InitDB
    /\ serverCats = InitialCats
    /\ \/ /\ pagePhase = "constructed"
          /\ alive = ImageIds
          /\ il = InitIL
       \/ \E x \in PaginationInputs :
             /\ pagePhase = "mounted"
             /\ alive = 1..(x.totalPages * limit)
             /\ il = LoadedIL(x.currentPage)
    /\ cm = InitCM
    /\ up = InitUP
    /\ net = << >>
    /\ lastOp = Op("navigate", path)

\* The pagination block is rendered: getPageNumbers().map(...).
GetPageNumbers ==
    /\ ilPaged
    /\ lastOp' = Op("getPageNumbers", getPageNumbers(il))
    /\ UNCHANGED << sessionVars, routeVars, db, pageVars, net, serverVars >>

NextNumbers ==
    \/ MountImages
    \/ GetPageNumbers
    \/ \E n \in 1..MaxTotalPages : HandlePageChange(n)
    \/ GoToNextPage
    \/ GoToPrevPage
    \/ \E i \in 1..MaxInFlight : DeliverImages(i)
    \/ \E i \in 1..MaxInFlight : ServerReply(i)

SpecNumbers == InitNumbers /\ [][NextNumbers]_vars

C5_CurrentPageInRange ==
    (il.pagination # << >> /\ il.pagination[1].totalRecords > 0)
        => il.currentPage \in 1..il.pagination[1].totalPages

\* C6: handleCategoryChange(c) sets the filter to c and the current page to 1
\* in one step; the list request it causes, if any, carries page 1 and c.
C6_FilterResetsPage ==
    [][\A c \in FilterInputs :
          HandleCategoryChange(c)
              => /\ il'.selectedCategory = c
                 /\ il'.currentPage = 1
                 /\ \/ net' = net
                    \/ /\ Len(net') = Len(net) + 1
                       /\ SubSeq(net', 1, Len(net)) = net
                       /\ net'[Len(net')].kind = "GET /images"
                       /\ net'[Len(net')].page = 1
                       /\ net'[Len(net')].category = c]_vars
\* A filter button was clicked on page 2 and the request for page 1 of the
\* new category is in flight.
C6_Witness ==
    /\ lastOp.name = "handleCategoryChange" /\ lastOp.arg = "c1"
    /\ il.pagination # << >> /\ il.pagination[1].currentPage = 2
    /\ il.currentPage = 1
    /\ net # << >>
    /\ net[Len(net)].category = "c1" /\ net[Len(net)].page = 1

\* C7: handlePageChange(n) changes nothing and issues no request when n < 1,
\* when n > totalPages of the pagination held, or when none is held;
\* otherwise it sets the current page to n. For every state of ImageListing
\* and every number n: the state handlePageChange(n) leaves is the state it
\* was called in, with no change of the dependencies of the effect that
\* issues the list request, in the three rejected cases, and that state with
\* currentPage = n otherwise; and every click of a page button leaves
\* currentPage at the number clicked with the request for that page in flight.
C7_PageChangeGuard ==
    /\ [](\A n \in 0..(MaxTotalPages + 1) :
             LET s == handlePageChange(il, n)
             IN IF n < 1 \/ il.pagination = << >> \/ n > il.pagination[1].totalPages
                THEN s = il /\ ~DepsChanged(il, s)
                ELSE /\ s = [il EXCEPT !.currentPage = n]
                     /\ DepsChanged(il, s) <=> n # il.currentPage)
    /\ [][lastOp'.name = "handlePageChange"
             => /\ il' = fetchImagesBegin([il EXCEPT !.currentPage = lastOp'.arg])
                /\ Len(net') = Len(net) + 1
                /\ net'[Len(net')].kind = "GET /images"
                /\ net'[Len(net')].page = lastOp'.arg]_vars
\* The button of page 2 of a listing of three pages was clicked: page 2 is
\* the current page and its request is in flight, and handlePageChange
\* called with 0 or with 4 in that state would change nothing.
C7_Witness ==
    /\ lastOp.name = "handlePageChange"
    /\ lastOp.arg = 2
    /\ il.currentPage = 2
    /\ il.pagination # << >>
    /\ il.pagination[1].totalPages = 3
    /\ net # << >> /\ net[Len(net)].page = 2
    /\ handlePageChange(il, 0) = il
    /\ handlePageChange(il, 4) = il

\* C8: a successful list response replaces the collection and the pagination
\* held with the content of that response.
C8_SuccessReplaces ==
    (/\ lastOp.name = "response"
     /\ lastOp.arg.kind = "GET /images"
     /\ lastOp.arg.status = 200)
        => /\ il.images = lastOp.arg.data
           /\ il.pagination = lastOp.arg.pagination
           /\ il.pagination # << >>
\* The response to a request for page 2 has replaced the content of page 1.
C8_Witness ==
    /\ lastOp.name = "response"
    /\ lastOp.arg.kind = "GET /images"
    /\ lastOp.arg.status = 200
    /\ lastOp.arg.page = 2
    /\ il.pagination[1].currentPage = 2
    /\ il.images = << NumImages >>

\* C9 as stated: after a list fetch has failed the error message is set and
\* the collection held is empty.
C9_FailureEmpties ==
    (lastOp.name = "response" /\ lastOp.arg.status # 200)
        => /\ lastOp.arg.kind = "GET /images" => (il.error # "" /\ il.images = << >>)
           /\ (lastOp.arg.kind = "GET /categories" /\ view = "categories")
                 => (cm.error # "" /\ cm.categories = << >>)
\* C9 amended: a failed list fetch sets the error message and resets the
\* loading flag, and leaves the collection and the pagination held as they
\* were: empty on a first load, the earlier content on a refresh.
C9_FailureKeepsCollection ==
    [][\A i \in 1..MaxInFlight :
          /\ (DeliverImages(i) /\ net[i].kind = "GET /images" /\ net[i].status # 200)
                => /\ il'.error = FetchImagesError(net[i])
                   /\ il'.error # ""
                   /\ ~il'.loading
                   /\ il'.images = il.images
                   /\ il'.pagination = il.pagination
          /\ (DeliverCategories(i) /\ net[i].kind = "GET /categories"
                                   /\ net[i].status # 200)
                => /\ cm'.error = MessageOr(net[i], "Failed to fetch categories")
                   /\ ~cm'.loading
                   /\ cm'.categories = cm.categories]_vars
\* A refresh has failed while images were held: they are still held, behind
\* the error.
C9_Witness ==
    /\ lastOp.name = "response"
    /\ lastOp.arg.kind = "GET /images"
    /\ lastOp.arg.status # 200
    /\ il.error # ""
    /\ il.images # << >>

\* C10 as stated: after a create, update or delete request has failed, the
\* modal or dialog that issued it is still open and shows the message.
C10_FailureKeepsDialogOpen ==
    (/\ lastOp.name = "response"
     /\ lastOp.arg.status # 200
     /\ lastOp.arg.kind \notin {"GET /images", "GET /categories"})
        => LET m == lastOp.arg
           IN /\ m.cont = "handleSave" => (cm.showModal /\ cm.modalError # "")
              /\ m.cont = "cmConfirmDelete"
                    => (cm.showDeleteModal /\ cm.categoryToDelete # << >>)
              /\ m.cont = "confirmDelete"
                    => (il.showDeleteModal /\ il.imageToDelete # NoId)
\* C10 amended: a failed category save leaves the modal open and idle, with
\* the message in it and the name in it untouched, ready for another
\* attempt; a failed category delete or image delete closes the dialog,
\* forgets the selection and puts the message in the error of the page.
C10_FailureHandling ==
    [][(/\ lastOp'.name = "response"
        /\ lastOp'.arg.status # 200
        /\ lastOp'.arg.kind \notin {"GET /images", "GET /categories"})
          => LET m == lastOp'.arg
             IN /\ m.cont = "handleSave"
                      => /\ cm'.showModal
                         /\ cm'.modalError = MessageOr(m, "Failed to save category")
                         /\ cm'.categoryName = cm.categoryName
                         /\ ~cm'.modalLoading
                /\ m.cont = "cmConfirmDelete"
                      => /\ ~cm'.showDeleteModal
                         /\ cm'.categoryToDelete = << >>
                         /\ ~cm'.deleteLoading
                         /\ cm'.error = MessageOr(m, "Failed to delete category")
                /\ m.cont = "confirmDelete"
                      => /\ ~il'.showDeleteModal
                         /\ il'.imageToDelete = NoId
                         /\ il'.deletingId = NoId
                         /\ il'.error = MessageOr(m, "Failed to delete image")]_vars
\* A category save has failed without a message from the service: the modal
\* is open and shows the fallback.
C10_Witness ==
    /\ lastOp.name = "response"
    /\ lastOp.arg.cont = "handleSave"
    /\ lastOp.arg.kind = "POST /categories"
    /\ lastOp.arg.status = 500
    /\ cm.showModal
    /\ cm.modalError = "Failed to save category"

\* C11: when a create, update or delete request succeeds, its handler issues
\* exactly one list request and leaves the collection held as it is; when
\* that list request resolves no further request is issued and the modal or
\* dialog is closed. The collection held changes only when a list response
\* is delivered.
C11_SuccessRefetchesOnce ==
    [][/\ \A i \in 1..Len(net) :
             /\ (/\ lastOp'.name = "response"
                 /\ net[i].kind = "DELETE /images" /\ net[i].status = 200
                 /\ DeliverImages(i))
                   => /\ il'.images = il.images
                      /\ il'.pagination = il.pagination
                      /\ Len(net') = Len(net)
                      /\ SubSeq(net', 1, Len(net) - 1) = RemoveAt(net, i)
                      /\ net'[Len(net')].kind = "GET /images"
                      /\ net'[Len(net')].stage = "sent"
             /\ (/\ lastOp'.name = "response"
                 /\ net[i].kind = "GET /images" /\ net[i].cont = "confirmDelete"
                 /\ DeliverImages(i))
                   => /\ net' = RemoveAt(net, i)
                      /\ ~il'.showDeleteModal
                      /\ il'.imageToDelete = NoId
             /\ (/\ lastOp'.name = "response"
                 /\ net[i].kind # "GET /categories" /\ net[i].status = 200
                 /\ DeliverCategories(i))
                   => /\ cm'.categories = cm.categories
                      /\ Len(net') = Len(net)
                      /\ SubSeq(net', 1, Len(net) - 1) = RemoveAt(net, i)
                      /\ net'[Len(net')].kind = "GET /categories"
                      /\ net'[Len(net')].stage = "sent"
             /\ (/\ lastOp'.name = "response"
                 /\ net[i].kind = "GET /categories"
                 /\ net[i].cont \in {"handleSave", "cmConfirmDelete"}
                 /\ DeliverCategories(i))
                   => /\ net' = RemoveAt(net, i)
                      /\ net[i].cont = "handleSave" => ~cm'.showModal
                      /\ net[i].cont = "cmConfirmDelete" => ~cm'.showDeleteModal
       /\ il'.images # il.images
             => \E i \in 1..Len(net) : net[i].kind = "GET /images" /\ DeliverImages(i)
       /\ cm'.categories # cm.categories
             => \E i \in 1..Len(net) :
                    net[i].kind = "GET /categories" /\ DeliverCategories(i)]_vars
\* The list request that followed a successful create has resolved: the
\* modal is closed and the category created is in the collection.
C11_Witness ==
    /\ lastOp.name = "response"
    /\ lastOp.arg.kind = "GET /categories"
    /\ lastOp.arg.cont = "handleSave"
    /\ lastOp.arg.status = 200
    /\ ~cm.showModal
    /\ \E k \in 1..Len(cm.categories) : cm.categories[k]._id = "c3"

\* C12: a DELETE request is issued only by the step that confirms the open
\* dialog, for the item an earlier action selected; while it is in flight the
\* dialog stays open and busy; selecting an item issues no request and puts
\* that item in the dialog; cancelling issues no request, closes the dialog
\* and clears the selection.
C12_DeleteNeedsConfirmation ==
    /\ [](\A k \in 1..Len(net) :
            /\ net[k].kind = "DELETE /images"
                  => (il.showDeleteModal /\ il.deletingId = net[k].id)
            /\ net[k].kind = "DELETE /categories"
                  => (cm.showDeleteModal /\ cm.deleteLoading))
    /\ [][LET Deletes(q) == { k \in 1..Len(q) :
                                 q[k].kind \in {"DELETE /images", "DELETE /categories"} }
          IN /\ Cardinality(Deletes(net')) > Cardinality(Deletes(net))
                   => /\ lastOp'.name = "confirmDelete"
                      /\ net' = Append(net, net'[Len(net')])
                      /\ view = "images"
                            => /\ il.showDeleteModal
                               /\ il.imageToDelete # NoId
                               /\ net'[Len(net')].kind = "DELETE /images"
                               /\ net'[Len(net')].id = il.imageToDelete
                      /\ view = "categories"
                            => /\ cm.showDeleteModal
                               /\ cm.categoryToDelete # << >>
                               /\ net'[Len(net')].kind = "DELETE /categories"
                               /\ net'[Len(net')].cid = cm.categoryToDelete[1]._id
             /\ lastOp'.name \in {"handleDeleteClick", "openDeleteModal"}
                   => /\ net' = net
                      /\ view = "images"
                            => (il'.showDeleteModal /\ il'.imageToDelete = lastOp'.arg)
                      /\ view = "categories"
                            => /\ cm'.showDeleteModal
                               /\ cm'.categoryToDelete # << >>
                               /\ cm'.categoryToDelete[1]._id = lastOp'.arg
             /\ lastOp'.name \in {"cancelDelete", "closeDeleteModal"}
                   => /\ net' = net
                      /\ il'.imageToDelete = NoId /\ ~il'.showDeleteModal
                      /\ cm'.categoryToDelete = << >> /\ ~cm'.showDeleteModal
             /\ lastOp'.name = "confirmDelete"
                   => Cardinality(Deletes(net')) = Cardinality(Deletes(net)) + 1]_vars

\* The deletion of an image has been confirmed and its request is in flight.
C12_Witness ==
    /\ lastOp.name = "confirmDelete"
    /\ view = "images"
    /\ il.imageToDelete = NumImages
    /\ net[Len(net)].kind = "DELETE /images"

\* C14: a save (create or edit) with an empty or whitespace-only name sets
\* the modal error and nothing else: no request is issued, the modal stays
\* open and the categories are unchanged.
C14_BlankNameRejected ==
    [][(lastOp'.name = "handleSave" /\ Trim(cm.categoryName) = << >>)
          => /\ cm' = [cm EXCEPT !.modalError = "Category name is required"]
             /\ cm'.showModal
             /\ cm'.categories = cm.categories
             /\ net' = net]_vars

\* A whitespace-only name has just been refused in edit mode.
C14_Witness ==
    /\ lastOp.name = "handleSave"
    /\ lastOp.arg = << " " >>
    /\ cm.modalMode = "edit"
    /\ cm.showModal
    /\ cm.modalError = "Category name is required"
    /\ \A i \in 1..Len(net) : net[i].cont # "handleSave"

\* C16: every successful list response of ImageListing replaces the
\* collection and the pagination with its own, whatever filter and page the
\* view is on and whatever other list requests are in flight, and it removes
\* nothing but itself from the requests in flight: of two overlapping
\* requests that both succeed, the one that resolves last is the one shown.
C16_LastResolvedWins ==
    [][(/\ lastOp'.name = "response"
        /\ lastOp'.arg.kind = "GET /images"
        /\ lastOp'.arg.status = 200)
          => /\ il'.images = lastOp'.arg.data
             /\ il'.pagination = lastOp'.arg.pagination
             /\ \E k \in 1..Len(net) :
                   net[k] = lastOp'.arg /\ net' = RemoveAt(net, k)]_vars

\* Two overlapping list requests have both succeeded and nothing is in
\* flight; the one issued first resolved last, and its page is shown while
\* the view is on the page of the one issued last.
C16_Witness ==
    /\ view = "images"
    /\ lastOp.name = "response"
    /\ lastOp.arg.kind = "GET /images"
    /\ lastOp.arg.status = 200
    /\ net = << >>
    /\ il.error = ""
    /\ lastOp.arg.page = 2
    /\ il.currentPage = 1
    /\ il.selectedCategory = lastOp.arg.category
    /\ il.images = lastOp.arg.data
    /\ il.pagination[1].currentPage = 2

\* C17: goToNextPage() called in the state a successful list response left,
\* its pagination having a next page, issues exactly one list request, for
\* page = nextPage and the filter unchanged; called with a pagination that
\* has no next page (or with none) it issues no request and changes no state.
C17_NextPageFetches ==
    [][lastOp'.name = "goToNextPage"
          => /\ (/\ lastOp.name = "response"
                 /\ lastOp.arg.kind = "GET /images"
                 /\ lastOp.arg.status = 200
                 /\ il.pagination[1].nextPage # NoId)
                   => /\ Len(net') = Len(net) + 1
                      /\ SubSeq(net', 1, Len(net)) = net
                      /\ net'[Len(net')].kind = "GET /images"
                      /\ net'[Len(net')].stage = "sent"
                      /\ net'[Len(net')].page = il.pagination[1].nextPage
                      /\ net'[Len(net')].category = il.selectedCategory
                      /\ il'.selectedCategory = il.selectedCategory
             /\ (il.pagination = << >> \/ il.pagination[1].nextPage = NoId)
                   => (il' = il /\ net' = net)]_vars

\* C21 as stated: every call of handleCategoryChange issues a list request.
C21_EveryFilterCallFetches ==
    [][lastOp'.name = "handleCategoryChange"
          => /\ Len(net') = Len(net) + 1
             /\ net'[Len(net')].kind = "GET /images"
             /\ net'[Len(net')].stage = "sent"]_vars

\* C21, amended: a call of handleCategoryChange issues one list request, for
\* the chosen category and page 1, when the category differs from the active
\* filter or the current page is not 1; when the chosen category is the
\* active filter and the current page is 1 it issues no request and changes
\* no state.
C21_FilterCallFetchesOnChange ==
    [][lastOp'.name = "handleCategoryChange"
          => IF lastOp'.arg # il.selectedCategory \/ il.currentPage # 1
             THEN /\ net' = Append(net, net'[Len(net')])
                  /\ net'[Len(net')].kind = "GET /images"
                  /\ net'[Len(net')].stage = "sent"
                  /\ net'[Len(net')].category = lastOp'.arg
                  /\ net'[Len(net')].page = 1
             ELSE net' = net /\ il' = il]_vars

\* The active filter has been chosen again on page 1 with nothing in flight:
\* nothing has been requested.
C21_Witness ==
    /\ lastOp.name = "handleCategoryChange"
    /\ lastOp.arg = "c1"
    /\ il.selectedCategory = "c1"
    /\ il.currentPage = 1
    /\ ~il.loading
    /\ net = << >>

\* C24: every step of ImageListing that issues a list request (a mount, a
\* filter or page change, a retry, the refetch after a successful delete)
\* issues it with page equal to the current page, limit 10, and the active
\* filter as category, the category being absent exactly when the filter is
\* 'All'.
C24_ListRequestParams ==
    [][(/\ view = "images"
        /\ net' # << >>
        /\ net'[Len(net')].kind = "GET /images"
        /\ net'[Len(net')].stage = "sent"
        /\ \/ Len(net') > Len(net)
           \/ lastOp'.name = "response" /\ Len(net') = Len(net))
          => LET params == net'[Len(net')].params
             IN /\ Len(params) = 1
                /\ params[1].limit = 10
                /\ params[1].page = il'.currentPage
                /\ params[1].category =
                       IF il'.selectedCategory = "All" THEN << >>
                       ELSE << il'.selectedCategory >>]_vars

\* A request for page 2 without category and a later request for page 1 of
\* category c1 are in flight.
C24_Witness ==
    /\ view = "images"
    /\ Len(net) = 2
    /\ net[1].kind = "GET /images"
    /\ net[1].params[1].page = 2
    /\ net[1].params[1].category = << >>
    /\ net[2].kind = "GET /images"
    /\ net[2].stage = "sent"
    /\ net[2].params[1].category = << "c1" >>
    /\ net[2].params[1].page = 1
    /\ il.selectedCategory = "c1"

\* C25: in ImageListing loading is true whenever a list request of the view
\* is in flight.
C25_LoadingWhileInFlight ==
    (/\ view = "images"
     /\ \E i \in 1..Len(net) :
           net[i].kind = "GET /images" /\ net[i].cont \in {"fetchImages", "confirmDelete"})
        => il.loading

\* C26: when the only request still in flight is a list request for a filter
\* or page the view has left (a superseded request), and no error is set, so
\* that the request issued last has succeeded, the response to the
\* superseded request changes neither the images displayed nor the error:
\* with nothing left in flight the error is empty and the images are those
\* of the request issued last.
C26_SupersededResponseIgnored ==
    [][(/\ view = "images"
        /\ Len(net) = 1
        /\ net[1].kind = "GET /images"
        /\ net[1].cont = "fetchImages"
        /\ net[1].page # il.currentPage \/ net[1].category # il.selectedCategory
        /\ il.error = ""
        /\ lastOp'.name = "response"
        /\ net' = << >>)
          => (il'.error = "" /\ il'.images = il.images)]_vars

\* C29: while the create/edit modal is open in edit mode the category being
\* edited is set; a save with a non-blank name issues exactly one request, the
\* mutation (POST in create mode, PUT for the edited id in edit mode); and the
\* refetch of handleSave is only issued when the response to that mutation
\* arrives.
C29_SaveIssuesOneMutation ==
    /\ []((view = "categories" /\ cm.showModal /\ cm.modalMode = "edit")
             => cm.editingCategory # << >>)
    /\ [][(view = "categories" /\ lastOp'.name = "handleSave" /\ ~SaveRejected(cm))
             => /\ net' = Append(net, net'[Len(net')])
                /\ LET m == net'[Len(net')]
                   IN /\ m.stage = "sent"
                      /\ m.name = Trim(cm.categoryName)
                      /\ IF cm.modalMode = "create"
                         THEN m.kind = "POST /categories"
                         ELSE /\ m.kind = "PUT /categories"
                              /\ cm.editingCategory # << >>
                              /\ m.cid = cm.editingCategory[1]._id]_vars
    /\ [][(/\ view = "categories"
           /\ Len(net') > 0
           /\ net'[Len(net')].kind = "GET /categories"
           /\ net'[Len(net')].cont = "handleSave"
           /\ net'[Len(net')].stage = "sent"
           /\ \A k \in 1..Len(net) : net[k] # net'[Len(net')])
             => /\ lastOp'.name = "response"
                /\ lastOp'.arg.kind \in {"POST /categories", "PUT /categories"}
                /\ lastOp'.arg.status = 200]_vars

\* A category was created, the modal closed itself, then the edit modal of
\* the first card was opened and saved: the PUT for that card is in flight.
C29_Witness ==
    /\ view = "categories"
    /\ lastOp.name = "handleSave"
    /\ Len(serverCats) = 2
    /\ cm.modalMode = "edit"
    /\ cm.modalLoading
    /\ net = << [Request("PUT /categories", "handleSave") EXCEPT
                    !.cid = cm.editingCategory[1]._id, !.name = << "a" >>] >>

(***************************************************************************)
(* Properties of ImageUpload, checked under SpecUpload.                    *)
(***************************************************************************)
\* C13: a selected file larger than 10 * 1024 * 1024 bytes is rejected with
\* an error and does not become the selected image, the selected image and
\* the file of every upload request are never larger than that, and a file of
\* exactly that size (or smaller) becomes the selected image.
C13_OversizeRejected ==
    /\ up.image.size <= 10 * 1024 * 1024
    /\ \A i \in 1..Len(net) :
          net[i].kind = "POST /images/upload"
              => (net[i].file # NoFile /\ net[i].file.size <= 10 * 1024 * 1024)
    /\ lastOp.name = "handleImageChange"
          => IF lastOp.arg = NoFile THEN TRUE
             ELSE IF lastOp.arg.size > 10 * 1024 * 1024
             THEN /\ up.error = "File size must be less than 10MB"
                  /\ up.image # lastOp.arg
                  /\ ~BagIn(lastOp.arg, up.reading)
             ELSE up.image = lastOp.arg /\ up.error = ""
    /\ lastOp.name = "handleSubmit" => net[Len(net)].file = lastOp.arg

\* An oversize file has just been rejected while the selected image is one of
\* exactly the limit.
C13_Witness ==
    /\ lastOp.name = "handleImageChange"
    /\ lastOp.arg.size > 10 * 1024 * 1024
    /\ up.image.size = 10 * 1024 * 1024
    /\ up.error = "File size must be less than 10MB"

\* C15: after a successful response to GET /categories, in the shape of an
\* object with a data array or of a bare array, ImageUpload holds the
\* categories of the response and still renders.
C15_BothShapesAccepted ==
    (/\ lastOp.name = "response"
     /\ lastOp.arg.cont = "upFetchCategories"
     /\ lastOp.arg.status = 200)
        => /\ upRenders(up)
           /\ up.categories.list = lastOp.arg.data

\* C22: after a response has reached fetchCategories or handleSubmit of
\* ImageUpload the view still renders, and when the request failed or its
\* success payload was not of the expected shape an error message is shown.
C22_FailuresVisible ==
    (/\ lastOp.name = "response"
     /\ lastOp.arg.cont \in {"upFetchCategories", "handleSubmit"})
        => /\ upRenders(up)
           /\ (Rejected(lastOp.arg) \/ lastOp.arg.shape = "bare") => up.error # ""

\* C23: every POST /images/upload carries a selected image and a title that
\* is not empty after trimming, and a submit refused for a missing image
\* shows its error.
C23_RequiredFieldsChecked ==
    /\ \A i \in 1..Len(net) :
          net[i].kind = "POST /images/upload"
              => (net[i].file # NoFile /\ Trim(net[i].title) # << >>)
    /\ (lastOp.name = "handleSubmit" /\ lastOp.arg = NoFile)
          => up.error = "Please select an image"

\* C27: once no file read is in progress, a preview that is not empty is the
\* data URL of the selected image.
C27_PreviewOfSelectedImage ==
    (upRenders(up) /\ up.reading = EmptyBag /\ up.preview # NoPreview)
        => (up.image # NoFile /\ up.preview = DataURL(up.image))

(***************************************************************************)
(* Progress of the protected views, checked under SpecBusy.                *)
(***************************************************************************)
\* C28: when every request is answered, every busy flag of a view that is
\* mounted returns to its idle value: loading in ImageListing,
\* CategoryManagement, ImageUpload and Dashboard, modalLoading and
\* deleteLoading in CategoryManagement, deletingId in ImageListing.
C28_BusyFlagsReset ==
    /\ (view = "images" /\ pagePhase = "mounted" /\ il.loading) ~> ~il.loading
    /\ (view = "images" /\ il.deletingId # NoId) ~> (il.deletingId = NoId)
    /\ (view = "categories" /\ pagePhase = "mounted" /\ cm.loading) ~> ~cm.loading
    /\ (view = "categories" /\ cm.modalLoading) ~> ~cm.modalLoading
    /\ (view = "categories" /\ cm.deleteLoading) ~> ~cm.deleteLoading
    /\ (view = "upload" /\ up.loading) ~> (view # "upload" \/ ~up.loading)
    /\ (view = "dashboard" /\ db.loading) ~> (view # "dashboard" \/ ~db.loading)

\* A failed save has been delivered to handleSave: modalLoading is back to
\* false and the modal is still open.
C28_Witness ==
    /\ view = "categories"
    /\ lastOp.name = "response"
    /\ lastOp.arg.cont = "handleSave"
    /\ lastOp.arg.status = 500
    /\ ~cm.modalLoading
    /\ cm.showModal

(***************************************************************************)
(* Properties of getPageNumbers, checked under SpecNumbers.                *)
(***************************************************************************)
\* C30: for a pagination with 1 <= currentPage <= totalPages, the numbers of
\* the list getPageNumbers returns are strictly increasing, lie in
\* 1..totalPages and include 1, totalPages and currentPage; every '...'
\* stands between two numbers that differ by at least 2; and for
\* totalPages <= 7 the list is exactly 1..totalPages. It holds of the list
\* every render of the pagination block got, and of the list getPageNumbers
\* returns for every pagination of up to MaxTotalPages pages.
C30_PageNumbers ==
    LET Good(pages, currentPage, totalPages) ==
            LET Numbers == { k \in 1..Len(pages) : ~pages[k].ellipsis }
            IN /\ \A j, k \in Numbers : j < k => pages[j].page < pages[k].page
               /\ \A k \in Numbers : pages[k].page \in 1..totalPages
               /\ \A n \in {1, totalPages, currentPage} :
                      \E k \in Numbers : pages[k].page = n
               /\ \A k \in (1..Len(pages)) \ Numbers :
                      /\ k - 1 \in Numbers
                      /\ k + 1 \in Numbers
                      /\ pages[k + 1].page - pages[k - 1].page >= 2
               /\ totalPages <= 7 =>
                      /\ Len(pages) = totalPages
                      /\ \A k \in 1..totalPages : pages[k] = PageEntry(k)
    IN /\ (/\ lastOp.name = "getPageNumbers"
            /\ 1 <= il.pagination[1].currentPage
            /\ il.pagination[1].currentPage <= il.pagination[1].totalPages)
               => Good(lastOp.arg, il.pagination[1].currentPage,
                       il.pagination[1].totalPages)
       /\ \A x \in PaginationInputs :
              Good(getPageNumbers([il EXCEPT !.pagination =
                       << PaginationOf(x.totalPages * limit, x.currentPage) >>]),
                   x.currentPage, x.totalPages)

\* Page 5 of 10: 1, '...', 4, 5, 6, '...', 10.
C30_Witness ==
    /\ lastOp.name = "getPageNumbers"
    /\ il.pagination # << >>
    /\ il.pagination[1].currentPage = 5
    /\ il.pagination[1].totalPages = 10
    /\ lastOp.arg = << PageEntry(1), Ellipsis, PageEntry(4), PageEntry(5),
                       PageEntry(6), Ellipsis, PageEntry(10) >>
====
